---- MODULE Spec2Model ----
(***************************************************************************)
(* HilbertCoordinator (src/src/agent/coordinator.py): the recursive        *)
(* decompose / prove / verify / repair loop.  The Reasoner, Retriever,     *)
(* Verifier and Prover are the collaborators the coordinator is built      *)
(* with; every call to one of them is a nondeterministic choice of its     *)
(* answer.  The call stack is a sequence of frames, one per active         *)
(* subgoal_decomposition invocation; the helpers it calls (which never     *)
(* overlap in time inside one invocation) are positions of that frame.     *)
(***************************************************************************)
EXTENDS Integers, Sequences, FiniteSets, TLC

(* ---- bounds of the model ------------------------------------------------*)
\* max_depth is drawn from 1..MaxDepthBound at construction
MaxDepthBound == 3
\* the Reasoner extracts at most MaxSubgoals subgoals from one sketch
MaxSubgoals == 2
\* ... and, when it splits the sketch of a subgoal at all, at most
\* MaxInnerSubgoals from it
MaxInnerSubgoals == 1
\* retry budgets (instance attributes, coordinator.py:32-38), scaled down
sketch_attemps == 2
sketch_correction_attemps == 2
theorem_corrections == 2
subgoal_corrections == 1
head_theorems_sketch == 1
prover_attemps == 2
general_llm_proof_attemps == 2

(* ---- texts ----------------------------------------------------------------
   A text (Python str) is a sequence of tokens; + is concatenation.          *)
None == <<"<None>">>
Empty == <<>>
NL == <<"\n">>
Header == <<"import Mathlib">>

RECURSIVE Join(_, _)
\* sep.join(xs) for a sequence xs of texts
Join(sep, xs) ==
    IF Len(xs) = 0 THEN Empty
    ELSE IF Len(xs) = 1 THEN xs[1]
    ELSE xs[1] \o sep \o Join(sep, Tail(xs))

(* ---- dicts: insertion-ordered sequences of <<key, value>> pairs ----------*)
DictKeys(d) == {d[j][1] : j \in 1..Len(d)}
DictHas(d, key) == key \in DictKeys(d)
DictValues(d) == [j \in 1..Len(d) |-> d[j][2]]
\* d[key] = value: an existing key keeps its position, a new one is appended
DictSet(d, key, value) ==
    IF DictHas(d, key)
    THEN [j \in 1..Len(d) |-> IF d[j][1] = key THEN <<key, value>> ELSE d[j]]
    ELSE Append(d, <<key, value>>)

(* ---- the collaborators' answers -------------------------------------------*)
NoMessage == "ok"
UnknownIdentifier == "unknown identifier 'x'"
UnknownConstant == "unknown constant 'Finset.c'"
TypeMismatch == "type mismatch"
Diagnostics == {UnknownIdentifier, UnknownConstant, TypeMismatch}
\* `if verified:` (coordinator.py:188 and the like): the truth value of what
\* the statement bound to verified, True and False written as Python prints them
Truthy(verified) == verified \notin {"False", "None", ""}

\* Retriever.batch_retrieve + Reasoner.select_relevant_theorems
RetrievedTheorems == <<"thm1">>

\* Reasoner.extract_subgoals: the first n of the statements lemma1, lemma2, ...;
\* n <= MaxSubgoals for the outermost problem and n <= inner for a subgoal's sketch
SubgoalLists(depth, inner) ==
    LET most == IF depth = 1 THEN MaxSubgoals ELSE inner
    IN {[j \in 1..n |-> <<<<"lemma1", "lemma2", "lemma3", "lemma4">>[j]>>] : n \in 0..most}

\* Reasoner outputs: one text per kind of request; a corrected statement or
\* proof keeps the statement it is about
GeneratedSketch == <<"sketch">>
CorrectedSketch == <<"corrected sketch">>
CompressedSketch == <<"compressed sketch">>
RefinedSketch == <<"refined sketch">>
AssembledSketch == <<"assembled sketch">>
CorrectedAssembly == <<"corrected assembly">>
CorrectedSubgoal(subgoal) == <<subgoal[1], "corrected">>
\* Prover.prove_subgoal(subgoal, header): "" or the completed statement
ProverOutputs(subgoal) == {Empty, <<subgoal[1], ":= by prover">>}
\* Reasoner.attemp_reasoner_proof: "" or a proof
ReasonerProofs(subgoal) == {Empty, <<subgoal[1], ":= by reasoner">>}

\* RetrieverAgent.batch_retrieve is called with at most MaxQueries queries and
\* with top_k in 1..MaxTopK
MaxQueries == 3
MaxTopK == 3

\* execute is called at most MaxExecuteCalls times on one Lean4Runner
MaxExecuteCalls == 2

\* during the verification calls of a generate_proof run os.remove raises only
\* while fewer than MaxLeftOnDisk files are left on the disk of a cleaning runner
MaxLeftOnDisk == 1

\* max_retries of a generate call is at most MaxRetries
MaxRetries == 3

\* execute2 is called at most MaxExecute2Calls times on one AgentState
MaxExecute2Calls == 2

(* ---- state ------------------------------------------------------------------*)
VARIABLES
    max_depth,   \* self.max_depth
    prover,      \* self.prover: "ProverAgent" or "None"
    verification, \* self.verification: "VerificationAgent", or "pairs" for an object
                 \* whose execute returns a (verified, error_message) pair
    stack,       \* active subgoal_decomposition invocations, outermost first
    status,      \* "running" until generate_proof has returned
    result,      \* what generate_proof returned
    lastExec,    \* the most recent `verified, error_message = self.verification
                 \* .execute(code)` that bound its targets: code and verified
    lastDiagnostic, \* the error_message it bound
    raised,      \* the exception that left generate_proof, "" while none has
    reasoner,    \* self.reasoner: how many subgoals it extracts at most from the
                 \* sketch of a subgoal (inner) and, when its calls are counted
                 \* (counted), the number of calls made to it so far (calls)
    check,       \* one call of the repository's VerificationAgent made on its
                 \* own, step by step
    retrieval,   \* one RetrieverAgent.batch_retrieve call, step by step
    runner,      \* a Lean4Runner: its temp_files, the files on disk, the call in progress
    client,      \* one OpenAIClient.generate call, step by step
    agent_state  \* an AgentState handed to VerificationAgent.execute2

\* the state of the collaborator classes; of these the coordinator touches
\* only the runner, through a VerificationAgent's checks
peers == <<retrieval, runner, client, agent_state>>
\* the state of the coordinator, which no step of a collaborator class touches
coordinator == <<max_depth, prover, verification, stack, status, result, lastExec, lastDiagnostic,
                 raised, reasoner>>

vars == <<max_depth, prover, verification, stack, status, result, lastExec, lastDiagnostic,
          raised, reasoner, check, retrieval, runner, client, agent_state>>


Top == stack[Len(stack)]

(* ---- frames -----------------------------------------------------------------
   One frame holds the locals of one subgoal_decomposition invocation and of
   the helpers running under it.  Locals that are out of scope hold their
   default.  called, nsketch, ret_line and outcome record what the invocation
   has done so far (ret_line is 61, 81 or 83 once it returns);
   verified_at_once, prover_called, cs_diags, cs_retrievals, cs_execs,
   cs_reasoner (the Reasoner calls of complete_and_correct_syntax_error),
   cs_theorems (the theorems its latest correction was given), extracted_all, compress_verified, extract_from, assembled_from,
   assembly_accepted and attempted record what the current pass (and the
   solve_all_subgoals call after it) has done so far, rv_result what the
   latest refine_and_validate_sketch call returned.                          *)
NoOutcome == [prover |-> "untried", reasoner |-> "untried", decomposition |-> "untried"]

\* what the latest refine_and_validate_sketch call of an invocation returned:
\* nothing yet, (None, None, None) (lines 136, 156, 161, 172), or line 166's
\* (sketch_assembled, verified_subgoals, proved_subgoals), whose list and map
\* are in the frame
NotReturned ==
    [returned |-> FALSE, sketch_assembled |-> None,
     subgoals_null |-> TRUE, proved_null |-> TRUE]
AllNull ==
    [returned |-> TRUE, sketch_assembled |-> None,
     subgoals_null |-> TRUE, proved_null |-> TRUE]
Validated(sketch_assembled) ==
    [returned |-> TRUE, sketch_assembled |-> sketch_assembled,
     subgoals_null |-> FALSE, proved_null |-> FALSE]

\* the calls of one attemp_proverllm_proof invocation: of prove_subgoal, of the
\* Verifier, the empty outputs among the former, and the value returned
NoProverCalls == [prover |-> 0, execs |-> 0, empty |-> 0, proof |-> None]

Frame(problem, depth) ==
    [pc |-> "sd_entry", depth |-> depth, problem |-> problem,
     called |-> FALSE, nsketch |-> 0, ret_line |-> 0, retval |-> None,
     attempt |-> 0, relevant_theorems |-> <<>>, sketch |-> None, pass_no |-> 0,
     cs_sketch |-> None, error_message |-> NoMessage, k |-> 0,
     augmented_theorems |-> <<>>, sketch_syntactic |-> None,
     extracted |-> <<>>, correct_subgoals |-> <<>>, i |-> 0,
     subgoals |-> <<>>, assembled_raw |-> None, sketch_assembled |-> None,
     verified_subgoals |-> <<>>, proved_subgoals |-> <<>>,
     error_justification |-> None,
     subgoals_proved |-> <<>>, caller |-> "", outcome |-> NoOutcome,
     ss_theorems |-> <<>>, proof |-> None,
     verified_at_once |-> FALSE, prover_called |-> FALSE,
     cs_diags |-> <<>>, cs_retrievals |-> 0,
     cs_execs |-> 0, cs_reasoner |-> 0, cs_theorems |-> <<>>,
     extracted_all |-> <<>>, compress_verified |-> "untried",
     extract_from |-> None, assembled_from |-> None,
     assembly_accepted |-> None, attempted |-> <<>>, rv_result |-> NotReturned,
     pv_prover |-> 0, pv_execs |-> 0, pv_empty |-> 0, pv_last |-> NoProverCalls]

\* the frame with every local of the current sketch attempt dropped
ResetAttempt(f) ==
    [Frame(f.problem, f.depth) EXCEPT
        !.called = f.called, !.nsketch = f.nsketch, !.attempt = f.attempt,
        !.rv_result = f.rv_result]

\* the frame with every local of the current refine pass dropped
ResetPass(f) ==
    [ResetAttempt(f) EXCEPT
        !.relevant_theorems = f.relevant_theorems, !.sketch = f.sketch,
        !.pass_no = f.pass_no]

\* a helper whose diagnostic outlives its loop
EndLoop_KeepsDiagnostic(f) ==
    [f EXCEPT !.k = 0, !.augmented_theorems = <<>>,
              !.cs_sketch = None, !.assembled_raw = None]

\* the locals of one loop of a helper dropped
EndLoop(f) ==
    [f EXCEPT !.k = 0, !.error_message = NoMessage, !.augmented_theorems = <<>>,
              !.cs_sketch = None, !.assembled_raw = None]

(* ---- pure helpers -------------------------------------------------------------*)
\* _extract_missing_identifiers: the names after "unknown identifier|constant"
ExtractMissingIdentifiers(error_message) ==
    IF error_message = UnknownIdentifier THEN <<"x">>
    ELSE IF error_message = UnknownConstant THEN <<"Finset.c">>
    ELSE <<>>

\* an augmentation that merges the retrieved theorems whatever the diagnostic says
AugmentTheorems_Always(error_message, existing_theorems, additional_theorems) ==
    existing_theorems \o additional_theorems

\* augment_theorems, given what retrieve_theorems would return
AugmentTheorems(error_message, existing_theorems, additional_theorems) ==
    IF ExtractMissingIdentifiers(error_message) # <<>>
    THEN existing_theorems \o additional_theorems
    ELSE existing_theorems

\* an augmentation that retrieves whatever the diagnostic says
Retrievals_Always(error_message) == 1

\* augment_theorems lines 218-219: the number of retrieve_theorems calls it makes
Retrievals(error_message) ==
    IF ExtractMissingIdentifiers(error_message) # <<>> THEN 1 ELSE 0

\* a compressed sketch that is kept whatever the Verifier said
KeptSketch_Always(verified_compressed, sketch_syntactic, sketch_compressed) ==
    sketch_compressed

\* refine_and_validate_sketch lines 145-150: the sketch the pass goes on with
KeptSketch(verified_compressed, sketch_syntactic, sketch_compressed) ==
    IF verified_compressed THEN sketch_compressed ELSE sketch_syntactic

\* the text verify_and_correct_proof_with_theorems submits
FullProofWithTheorems(theorems_block, sketch) ==
    IF theorems_block # Empty
    THEN Header \o NL \o theorems_block \o NL \o sketch
    ELSE Header \o NL \o sketch

\* a rewrite that is asked for only when an identifier is missing
CorrectSketchError_OnlyIfMissing(sketch, error_message, augmented_theorems) ==
    IF ExtractMissingIdentifiers(error_message) # <<>> THEN CorrectedSketch ELSE sketch

\* complete_and_correct_syntax_error line 194: Reasoner.correct_sketch_error is
\* asked in every iteration and answers with a rewritten sketch
CorrectSketchError_Answer(sketch, error_message, augmented_theorems) == CorrectedSketch

\* a depth check that lets depth = max_depth through
AtMaxDepth_Strict(depth) == depth > max_depth

\* subgoal_decomposition line 59: the recursion's base case
AtMaxDepth(depth) == depth >= max_depth

\* a map rebuilt at every subgoal instead of updated
RecordProof_Rebuilt(subgoals_proved, subgoal, proof) ==
    IF proof # None THEN <<<<subgoal, proof>>>> ELSE <<>>

\* solve_all_subgoals lines 379-380: record the proof of the subgoal just solved
RecordProof(subgoals_proved, subgoal, proof) ==
    IF proof # None THEN DictSet(subgoals_proved, subgoal, proof) ELSE subgoals_proved

\* a composed proof returned whatever the Verifier said
FinalResult_Unchecked(verified, final_proof) == final_proof

\* solve_all_subgoals lines 390-394: the composed proof is returned only if verified
FinalResult(verified, final_proof) == IF verified THEN final_proof ELSE None

\* a composition that leaves the theorem block out when there is no proof
ConcatenateProofs_SketchOnly(subgoals_proved, sketch_assembled) ==
    IF subgoals_proved = <<>>
    THEN Header \o NL \o sketch_assembled
    ELSE Header \o NL \o Join(NL \o NL, DictValues(subgoals_proved)) \o NL
             \o sketch_assembled

\* concatenate_proofs: header, the proofs of this call joined by blank lines, sketch
ConcatenateProofs(subgoals_proved, sketch_assembled) ==
    Header \o NL \o Join(NL \o NL, DictValues(subgoals_proved)) \o NL \o sketch_assembled

(* ---- control flow between the collaborators' calls ------------------------------
   Each operator maps a frame to the frame at the next call site (or return).  *)

\* subgoal_decomposition returns value (line 61, 81 or 83)
ReturnFrom(f, value, line) ==
    [ResetAttempt(f) EXCEPT !.pc = "sd_return", !.retval = value, !.ret_line = line]

\* a sketch loop that runs one attempt too many
SketchLoop_OneMore(f, a) ==
    IF a <= sketch_attemps
    THEN [ResetAttempt(f) EXCEPT !.pc = "sd_attempt", !.attempt = a]
    ELSE ReturnFrom(f, None, 83)

\* the loop `for attempt in range(self.sketch_attemps)` at index a
SketchLoop(f, a) ==
    IF a < sketch_attemps
    THEN [ResetAttempt(f) EXCEPT !.pc = "sd_attempt", !.attempt = a]
    ELSE ReturnFrom(f, None, 83)

\* a failed pass that hands back the sketch it had assembled
AfterRefineFailed_KeepsSketch(f) ==
    SketchLoop([f EXCEPT !.rv_result =
                    [AllNull EXCEPT !.sketch_assembled = f.sketch_assembled]],
               f.attempt + 1)

\* refine_and_validate_sketch returned (None, None, None): the `if` at line 78
\* is skipped and the sketch loop goes on
AfterRefineFailed(f) == SketchLoop([f EXCEPT !.rv_result = AllNull], f.attempt + 1)

\* a pass loop that starts every pass from the sketch as first generated
PassLoop_Fresh(f, p) ==
    IF p < sketch_correction_attemps
    THEN [ResetPass(f) EXCEPT !.pc = "rv_pass", !.pass_no = p,
                              !.sketch = GeneratedSketch]
    ELSE AfterRefineFailed(f)

\* a pass loop whose index is never advanced
PassLoop_NoProgress(f, p) ==
    IF 0 < sketch_correction_attemps
    THEN [ResetPass(f) EXCEPT !.pc = "rv_pass", !.pass_no = 0]
    ELSE AfterRefineFailed(f)

\* the loop `for attempt in range(self.sketch_correction_attemps)` at index p
PassLoop(f, p) ==
    IF p < sketch_correction_attemps
    THEN [ResetPass(f) EXCEPT !.pc = "rv_pass", !.pass_no = p]
    ELSE AfterRefineFailed(f)

\* a syntax failure answered by another pass of refine_and_validate_sketch
SyntaxLoop_NextPass(f, k) ==
    IF k < theorem_corrections
    THEN [f EXCEPT !.pc = "cs_loop", !.k = k]
    ELSE PassLoop(f, f.pass_no + 1)

\* complete_and_correct_syntax_error: `for _ in range(self.theorem_corrections)`
SyntaxLoop(f, k) ==
    IF k < theorem_corrections
    THEN [f EXCEPT !.pc = "cs_loop", !.k = k]
    ELSE AfterRefineFailed(f)

\* a syntax step that hands back a rewritten sketch whichever check passed
SyntaxOk_Rewritten(f, sketch) ==
    [EndLoop(f) EXCEPT !.pc = "rv_compress", !.sketch_syntactic = CorrectedSketch]

\* complete_and_correct_syntax_error returned sketch
SyntaxOk(f, sketch) ==
    [EndLoop(f) EXCEPT !.pc = "rv_compress", !.sketch_syntactic = sketch]

\* extract_subgoals: `for subgoal in subgoals` at index j (1-based)
ExtractFrom(f, j) ==
    IF j > Len(f.extracted)
    THEN [EndLoop(f) EXCEPT !.pc = "as_assemble", !.subgoals = f.correct_subgoals,
                            !.extracted = <<>>, !.correct_subgoals = <<>>, !.i = 0]
    ELSE [EndLoop(f) EXCEPT !.pc = "es_check", !.i = j]

\* an extraction that drops a subgoal no correction could repair
SubgoalLoop_Skip(f, k) ==
    IF k < subgoal_corrections
    THEN [f EXCEPT !.pc = "es_correct", !.k = k]
    ELSE ExtractFrom(f, f.i + 1)

\* extract_subgoals: `for _ in range(self.subgoal_corrections)`
SubgoalLoop(f, k) ==
    IF k < subgoal_corrections
    THEN [f EXCEPT !.pc = "es_correct", !.k = k]
    ELSE AfterRefineFailed(f)



\* the subgoal attemp_proverllm_proof / solve_subgoal is working on
CurrentSubgoal(f) ==
    IF f.caller = "validate_subgoals" THEN f.subgoals[f.i] ELSE f.verified_subgoals[f.i]

\* solve_subgoal returns proof (None when every strategy failed)
SubgoalReturn(f, proof) ==
    [EndLoop(f) EXCEPT !.pc = "ss_return", !.proof = proof, !.ss_theorems = <<>>]

\* attemp_proverllm_proof returns value: its loop counters go out of scope,
\* what it did is kept as pv_last
ProverReturn(f, value) ==
    [EndLoop(f) EXCEPT !.pv_prover = 0, !.pv_execs = 0, !.pv_empty = 0,
                       !.pv_last = [prover |-> f.pv_prover, execs |-> f.pv_execs,
                                    empty |-> f.pv_empty, proof |-> value]]

\* the caller of attemp_proverllm_proof takes its next step: the record of
\* that invocation is dropped
AfterProver(f) == [f EXCEPT !.pv_last = NoProverCalls]

\* attemp_proverllm_proof returned None
ProverFailed(f) ==
    IF f.caller = "validate_subgoals"
    THEN [ProverReturn(f, None) EXCEPT !.pc = "vs_judge"]
    ELSE [ProverReturn(f, None) EXCEPT !.pc = "ss_general", !.outcome.prover = "none"]

\* a Prover loop that runs one attempt too many
ProverLoop_OneMore(f, k) ==
    IF k <= prover_attemps
    THEN [f EXCEPT !.pc = "pv_attempt", !.k = k]
    ELSE ProverFailed(f)

\* attemp_proverllm_proof: `for _ in range(self.prover_attemps)`
ProverLoop(f, k) ==
    IF k < prover_attemps
    THEN [f EXCEPT !.pc = "pv_attempt", !.k = k]
    ELSE ProverFailed(f)

\* an attemp_proverllm_proof that does not look at self.prover
CallProver_Unguarded(f) == ProverLoop(f, 0)

\* attemp_proverllm_proof(subgoal, header) is entered
CallProver(f) ==
    IF prover = "None" THEN ProverFailed(f) ELSE ProverLoop(f, 0)

RECURSIVE SolveAllFrom(_, _)
\* solve_all_subgoals: `for subgoal in subgoals` at index j (1-based);
\* subgoals is the second component refine_and_validate_sketch returned
SolveAllFrom(f, j) ==
    IF j > Len(f.verified_subgoals)
    THEN [f EXCEPT !.pc = "sa_final", !.i = 0, !.outcome = NoOutcome, !.proof = None]
    ELSE IF DictHas(f.proved_subgoals, f.verified_subgoals[j])
    THEN SolveAllFrom(f, j + 1)
    ELSE CallProver([f EXCEPT !.i = j, !.outcome = NoOutcome, !.proof = None,
                              !.attempted = Append(@, f.verified_subgoals[j])])

\* refine_and_validate_sketch returned a sketch: solve_all_subgoals is entered
\* (the locals of refine_and_validate_sketch go out of scope; subgoals, the list
\* validate_subgoals went through, is kept as a record of what was extracted)
StartSolveAll(f) ==
    SolveAllFrom([f EXCEPT !.caller = "solve_subgoal", !.subgoals_proved = <<>>,
                           !.sketch = None, !.pass_no = 0, !.sketch_syntactic = None,
                           !.compress_verified = "untried", !.extract_from = None,
                           !.assembled_from = None,
                           !.rv_result = Validated(f.sketch_assembled)], 1)

\* validate_subgoals: `for subgoal in subgoals` at index j (1-based)
ValidateFrom(f, j) ==
    IF j > Len(f.subgoals)
    THEN StartSolveAll(f)
    ELSE CallProver([f EXCEPT !.i = j, !.caller = "validate_subgoals"])

\* validate_subgoals asking for the judgment although the Prover's proof verified
ProverSucceeded_Judged(f, proof) ==
    IF f.caller = "validate_subgoals"
    THEN [ProverReturn(f, proof) EXCEPT !.pc = "vs_judge"]
    ELSE SubgoalReturn([ProverReturn(f, proof) EXCEPT !.outcome.prover = "proved"], proof)

\* solve_subgoal going on to the Reasoner although the Prover's proof verified
ProverSucceeded_FallThrough(f, proof) ==
    IF f.caller = "validate_subgoals"
    THEN ValidateFrom(
            [ProverReturn(f, proof) EXCEPT
                !.verified_subgoals = Append(@, proof),
                !.proved_subgoals = DictSet(@, f.subgoals[f.i], proof)],
            f.i + 1)
    ELSE [ProverReturn(f, proof) EXCEPT !.pc = "ss_general", !.outcome.prover = "proved"]

\* attemp_proverllm_proof returned proof
ProverSucceeded(f, proof) ==
    IF f.caller = "validate_subgoals"
    THEN ValidateFrom(
            [ProverReturn(f, proof) EXCEPT
                !.verified_subgoals = Append(@, proof),
                !.proved_subgoals = DictSet(@, f.subgoals[f.i], proof)],
            f.i + 1)
    ELSE SubgoalReturn([ProverReturn(f, proof) EXCEPT !.outcome.prover = "proved"], proof)

\* a judged subgoal recorded as proved, with its statement as its proof
JudgedCorrect_Recorded(f) ==
    ValidateFrom([f EXCEPT !.verified_subgoals = Append(@, f.subgoals[f.i]),
                           !.proved_subgoals =
                               DictSet(@, f.subgoals[f.i], f.subgoals[f.i])],
                 f.i + 1)

\* validate_subgoals lines 320-321: the Reasoner judged the subgoal correct
JudgedCorrect(f) ==
    ValidateFrom([f EXCEPT !.verified_subgoals = Append(@, f.subgoals[f.i])],
                 f.i + 1)

\* assemble_proof_from_subgoals returned sketch: validate_subgoals is entered
AssemblyOk(f, sketch) ==
    ValidateFrom([EndLoop(f) EXCEPT !.sketch_assembled = sketch], 1)

\* a repair loop that returns its last correction although it was rejected
AssemblyLoop_Unchecked(f, k) ==
    IF k < head_theorems_sketch
    THEN [f EXCEPT !.pc = "as_correct", !.k = k]
    ELSE AssemblyOk(f, CorrectedAssembly)

\* verify_and_correct_proof_with_theorems: `for _ in range(self.head_theorems_sketch)`
AssemblyLoop(f, k) ==
    IF k < head_theorems_sketch
    THEN [f EXCEPT !.pc = "as_correct", !.k = k]
    ELSE AfterRefineFailed(f)

\* general_llm_proof returned None
GeneralFailed(f) ==
    [EndLoop(f) EXCEPT !.pc = "ss_decompose", !.proof = None, !.ss_theorems = <<>>,
                       !.outcome.reasoner = "none"]

\* general_llm_proof: `for _ in range(self.general_llm_proof_attemps)`
GeneralLoop(f, k) ==
    IF k < general_llm_proof_attemps
    THEN [f EXCEPT !.pc = "gp_correct", !.k = k]
    ELSE GeneralFailed(f)

(* ---- the repository's Verifier ---------------------------------------------------
   VerificationAgent.execute over Lean4Runner.execute, and the statement
   `verified, error_message = self.verification.execute(code)` that receives
   its value.  A Python value is [type, items]: the fields of an object or the
   items of a dict as <<name, value>> pairs, the components of a tuple as they
   are.  The runner's Chinese messages are rendered in English.                  *)
NoCheck == [pc |-> "idle", code |-> None, written |-> "none", remove |-> "none",
            process |-> "none", stdout |-> "",
            stderr |-> "", result |-> [type |-> "NoneType", items |-> <<>>],
            returned |-> [type |-> "NoneType", items |-> <<>>],
            raised |-> "", unpacked |-> <<>>]

\* the outcomes of `lake lean <file>` in Lean4Runner.execute: an exit status with
\* its output, or an exception of the try block (lines 77-98)
ToolchainFailures == {"FileNotFoundError", "TimeoutExpired", "PermissionError", "Exception"}
Processes == {"exit 0", "exit 1"} \cup ToolchainFailures

\* Lean4Runner._extract_error_type on the diagnostics of the model
ExtractErrorType(error_text) ==
    IF error_text = TypeMismatch THEN "type mismatch (zh)"
    ELSE IF error_text = UnknownIdentifier THEN "undefined identifier (zh)"
    ELSE "compile error (zh)"

\* Lean4Runner._parse_error: error_message and formatted_message (no location
\* and no goal is found in the diagnostics of the model)
ParseError(error_text) ==
    IF error_text = ""
    THEN [error_message |-> "unknown error (zh)", error_type |-> "unknown (zh)",
          formatted_message |-> <<"verification failed: unknown error (zh)">>]
    ELSE [error_message |-> error_text, error_type |-> ExtractErrorType(error_text),
          formatted_message |-> <<"type: (zh)", ExtractErrorType(error_text), "\n",
                                  "\n", "error details: (zh)", "\n", error_text>>]

Lean4Result(success, output, error_message, error_type) ==
    [type |-> "Lean4Result",
     items |-> <<<<"success", success>>, <<"output", output>>,
                 <<"error_message", error_message>>, <<"error_type", error_type>>>>]

\* getattr(value, name, default)
GetAttr(value, name, default) ==
    IF \E j \in 1..Len(value.items) : value.items[j][1] = name
    THEN value.items[CHOOSE j \in 1..Len(value.items) : value.items[j][1] = name][2]
    ELSE default

\* Lean4Runner.execute, lines 101-148: the Lean4Result for each outcome
Lean4RunnerExecute(process, stdout, stderr) ==
    IF process = "exit 0"
    THEN Lean4Result(TRUE, <<IF stdout # "" THEN stdout ELSE "verification succeeded (zh)">>,
                     "None", "None")
    ELSE IF process = "exit 1"
    THEN LET parsed_error == ParseError(IF stderr # "" THEN stderr ELSE stdout)
         IN Lean4Result(FALSE, parsed_error.formatted_message,
                        parsed_error.error_message, parsed_error.error_type)
    ELSE IF process = "FileNotFoundError"
    THEN Lean4Result(FALSE, <<"error: Lean executable not found (zh)">>,
                     "Lean executable not found", "system error (zh)")
    ELSE IF process = "TimeoutExpired"
    THEN Lean4Result(FALSE, <<"error: Lean execution timed out (zh)">>,
                     "Execution timeout", "timeout error (zh)")
    ELSE IF process = "PermissionError"
    THEN Lean4Result(FALSE, <<"error: permission denied (zh)">>,
                     "Permission denied", "permission error (zh)")
    ELSE Lean4Result(FALSE, <<"unexpected error (zh)", "str(e)">>,
                     "str(e)", "unknown error (zh)")

\* VerificationAgent.execute, lines 23-32: a dict on success, the runner's own
\* result object otherwise
VerificationAgentExecute(lean4_result) ==
    IF GetAttr(lean4_result, "success", FALSE)
    THEN [type |-> "dict",
          items |-> <<<<"success", TRUE>>, <<"output", GetAttr(lean4_result, "output", <<>>)>>>>]
    ELSE lean4_result

\* the exception `a, b = value` raises, "" when it raises none
UnpackRaises(value) ==
    IF value.type \notin {"tuple", "dict"} THEN "TypeError"
    ELSE IF Len(value.items) # 2 THEN "ValueError"
    ELSE ""

\* what `a, b = value` binds: the components of a tuple, the keys of a dict
Unpack(value) ==
    IF UnpackRaises(value) # "" THEN <<>>
    ELSE IF value.type = "dict" THEN <<value.items[1][1], value.items[2][1]>>
    ELSE value.items

(* ---- RetrieverAgent (src/src/agent/retriever_agent.py) ---------------------------
   The FAISS index and the dataset are what index.search answers: for a query,
   the records of the corpus by decreasing similarity.  A score is the
   similarity in hundredths.                                                    *)
Queries == {"q1", "q2"}

TheoremRecord(name, score) == [name |-> name, score |-> score]

\* the answers of self.index.search over self.dataset, best first
Indexes ==
    { [q \in Queries |->
          IF q = "q1"
          THEN <<TheoremRecord("thm1", 90), TheoremRecord("thm2", 70),
                 TheoremRecord("thm3", 50)>>
          ELSE <<TheoremRecord("thm2", 80), TheoremRecord("thm1", 70),
                 TheoremRecord("thm3", 60)>>],
      [q \in Queries |->
          IF q = "q1"
          THEN <<TheoremRecord("thm1", 90), TheoremRecord("thm2", 80),
                 TheoremRecord("thm3", 10)>>
          ELSE <<TheoremRecord("thm3", 95), TheoremRecord("thm2", 85),
                 TheoremRecord("thm1", 20)>>] }

\* xs[:n]
Prefix(xs, n) == SubSeq(xs, 1, IF n < Len(xs) THEN n ELSE Len(xs))

\* RetrieverAgent.retrieve, lines 47-61: the top_k records of the search, of
\* which results[:2] is returned
Retrieve(index, query, top_k) == Prefix(Prefix(index[query], top_k), 2)

\* the place of x in a list sorted by decreasing score: behind every record
\* whose score is not smaller (sorted is stable)
RECURSIVE InsertByScore(_, _)
InsertByScore(sorted, x) ==
    IF sorted = <<>> THEN <<x>>
    ELSE IF Head(sorted).score >= x.score
    THEN <<Head(sorted)>> \o InsertByScore(Tail(sorted), x)
    ELSE <<x>> \o sorted

\* sorted(total_results, key=lambda x: x["score"], reverse=True), line 39
RECURSIVE SortedByScore(_)
SortedByScore(total_results) ==
    IF total_results = <<>> THEN <<>>
    ELSE InsertByScore(SortedByScore(SubSeq(total_results, 1, Len(total_results) - 1)),
                       total_results[Len(total_results)])

(* ---- Lean4Runner and its temporary files (src/src/verifier/lean4_runner.py) -------
   temp_files is self.temp_files; disk is the set of temporary files that
   exist; temp_dir says whether project_path/temp is a directory (it is not
   when it is missing or when it or project_path is a regular file).  The k-th
   call names its file TempPath(k) (a fresh uuid in the code).                  *)
NoRunner == [pc |-> "idle", cleanup |-> FALSE, temp_dir |-> FALSE, temp_files |-> <<>>,
             disk |-> {}, calls |-> 0, temp_path |-> "", outcome |-> ""]

TempPath(k) == <<"temp", k, ".lean">>

\* list.remove(x): the list without the first occurrence of x
RECURSIVE ListRemove(_, _)
ListRemove(xs, x) ==
    IF xs = <<>> THEN <<>>
    ELSE IF Head(xs) = x THEN Tail(xs)
    ELSE <<Head(xs)>> \o ListRemove(Tail(xs), x)

\* x in xs
InList(xs, x) == \E j \in 1..Len(xs) : xs[j] = x

\* what lines 80-84 of execute (os.makedirs, open, f.write) can do. With
\* project_path/temp a directory the file is written ("written"), or it is
\* created and the write raises, an encoding error say ("created", caught by
\* `except Exception`).  With or without that directory no file is made when
\* makedirs or open raises: FileNotFoundError (temp missing; project_path ""),
\* PermissionError, or another exception caught by `except Exception`
\* (FileExistsError, NotADirectoryError when project_path or temp is a regular
\* file; an OSError such as too many open files)
WriteOutcomes(temp_dir) ==
    (IF temp_dir THEN {"written", "created"} ELSE {})
        \cup {"FileNotFoundError", "Exception", "PermissionError"}

\* what one Lean4Runner.execute call does: the write, then `lake lean` exits or
\* raises (when the write raised, its exception is the outcome of the try
\* block), and os.remove in the finally block succeeds or raises
LeanRuns(rn) ==
    {run \in [written : WriteOutcomes(rn.temp_dir),
              process : Processes, stdout : {"", "ok"}, stderr : {""} \cup Diagnostics,
              remove : {"removed", "PermissionError"}] :
        /\ run.written = "created" => run.process = "Exception"
        /\ run.written \notin {"written", "created"} => run.process = run.written
        /\ run.process \in ToolchainFailures => run.stdout = "" /\ run.stderr = ""
        /\ (~rn.cleanup \/ run.written \notin {"written", "created"})
              => run.remove = "removed"
        /\ Cardinality(rn.disk) >= MaxLeftOnDisk => run.remove = "removed"}

\* the finally block of execute, lines 159-167
Finally(r, remove) ==
    IF r.cleanup /\ r.temp_path \in r.disk
    THEN IF remove = "removed"
         THEN [r EXCEPT !.disk = @ \ {r.temp_path},
                        !.temp_files = IF InList(@, r.temp_path)
                                       THEN ListRemove(@, r.temp_path) ELSE @]
         ELSE r
    ELSE r

\* Lean4Runner.execute, lines 73-167, as one call: the runner after it
ExecuteCall(rn, run) ==
    LET temp_path == TempPath(rn.calls + 1)
        entered == [rn EXCEPT !.calls = @ + 1, !.temp_path = temp_path,
                              !.temp_files = Append(@, temp_path)]
        tried == IF run.written \in {"written", "created"}
                 THEN [entered EXCEPT !.disk = @ \cup {temp_path}, !.outcome = run.process]
                 ELSE [entered EXCEPT !.outcome = run.written]
    IN [Finally(tried, run.remove) EXCEPT !.pc = "returned"]

\* cleanup_temp_files, lines 321-329, on the paths paths[j..] of the copy of
\* temp_files: each path has its own try statement, and os.remove raises on
\* the paths in failing, which then stay on the disk and in the list
RECURSIVE CleanupFrom(_, _, _, _)
CleanupFrom(r, paths, j, failing) ==
    IF j > Len(paths) THEN r
    ELSE IF paths[j] \in r.disk /\ paths[j] \in failing
    THEN CleanupFrom(r, paths, j + 1, failing)
    ELSE CleanupFrom([r EXCEPT !.disk = @ \ {paths[j]},
                               !.temp_files = ListRemove(@, paths[j])],
                     paths, j + 1, failing)

(* ---- the collaborator classes at rest ---------------------------------------------*)
NoRetrieval == [pc |-> "idle"]
NoClient ==
    [pc |-> "idle", valid |-> TRUE, max_retries |-> 0, retry_delay |-> 0,
     attempt |-> 0, last_error |-> "", calls |-> <<>>, sleeps |-> <<>>,
     outcome |-> ""]
NoAgentState ==
    [pc |-> "idle", task_template |-> <<>>, current_proof |-> <<>>,
     error_history |-> <<>>, calls |-> 0, lean_runs |-> 0,
     history_at_call |-> <<>>, runs_at_call |-> 0, full_code |-> <<>>,
     ret |-> [type |-> "NoneType", items |-> <<>>]]

\* no generate_proof call is in progress
CoordinatorIdle ==
    /\ max_depth = 1 /\ prover = "None" /\ verification = "None" /\ stack = <<>>
    /\ status = "idle" /\ result = None
    /\ lastExec = [code |-> None, verified |-> "False"]
    /\ lastDiagnostic = NoMessage
    /\ raised = ""
    /\ reasoner = [inner |-> 0, counted |-> FALSE, calls |-> 0]

(* ---- initial state ---------------------------------------------------------------
   The coordinator is built (with or without a Prover) and generate_proof has
   called subgoal_decomposition(problem, header, docstring) with depth 1.      *)

\* HilbertCoordinator(reasoner, retriever, verification, prover) with the given
\* kind of verification object: a VerificationAgent object over a Lean4Runner
\* just built (made without VerificationAgent.__init__, which raises on every
\* call), or an object whose execute answers pairs; and with a Reasoner that
\* extracts at most inner subgoals from a subgoal's sketch and whose calls are
\* counted or not
Constructed(kind, inner, counted) ==
    /\ max_depth \in 1..MaxDepthBound
    /\ prover \in {"ProverAgent", "None"}
    /\ verification = kind
    /\ stack = <<Frame(<<"theorem main">>, 1)>>
    /\ status = "running"
    /\ result = None
    /\ lastExec = [code |-> None, verified |-> "False"]
    /\ lastDiagnostic = NoMessage
    /\ raised = ""
    /\ reasoner = [inner |-> inner, counted |-> counted, calls |-> 0]
    /\ check = NoCheck
    /\ retrieval = NoRetrieval /\ client = NoClient /\ agent_state = NoAgentState
    /\ IF kind = "VerificationAgent"
       THEN \E cleanup \in BOOLEAN, temp_dir \in BOOLEAN :
               runner = [NoRunner EXCEPT !.pc = "ready", !.cleanup = cleanup,
                                         !.temp_dir = temp_dir]
       ELSE runner = NoRunner

\* the coordinator over a Verifier whose execute answers (verified, error_message)
\* and a Reasoner that splits the outermost sketch only
Init == Constructed("pairs", 0, FALSE)

\* the product of the retry budgets (instance attributes, coordinator.py:32-38)
BudgetProduct ==
    sketch_attemps * sketch_correction_attemps * theorem_corrections * subgoal_corrections
        * head_theorems_sketch * prover_attemps * general_llm_proof_attemps

\* a step that makes n calls to the Reasoner; a counting Reasoner adds them to
\* its tally, which stops at the first call beyond BudgetProduct
Tally(n) ==
    reasoner' = IF reasoner.counted
                THEN [reasoner EXCEPT !.calls = IF @ + n > BudgetProduct
                                                 THEN BudgetProduct + 1 ELSE @ + n]
                ELSE reasoner

Running(pc) == status = "running" /\ Len(stack) > 0 /\ Top.pc = pc
SetTop(f) == stack' = [stack EXCEPT ![Len(stack)] = f]
\* the same, in an action that calls a collaborator
SetTopCalled(f) == SetTop([f EXCEPT !.called = TRUE])

\* what self.verification.execute(code) can do and what the statement
\* `verified, error_message = ...` then binds or raises.  With the repository's
\* VerificationAgent the value is the dict or the Lean4Result of the Lean run;
\* with a pair-returning object it is (True, message) or (False, diagnostic)
ExecuteResults ==
    IF verification = "VerificationAgent"
    THEN {LET returned == VerificationAgentExecute(
                              Lean4RunnerExecute(run.process, run.stdout, run.stderr))
          IN [run |-> run,
              returned |-> returned,
              raises |-> UnpackRaises(returned),
              verified |-> IF UnpackRaises(returned) = "" THEN Unpack(returned)[1]
                           ELSE "unbound",
              error_message |-> IF UnpackRaises(returned) = "" THEN Unpack(returned)[2]
                                ELSE "unbound"] : run \in LeanRuns(runner)}
    ELSE {[run |-> "none", returned |-> "pair", raises |-> "",
           verified |-> "True", error_message |-> NoMessage]}
         \cup {[run |-> "none", returned |-> "pair", raises |-> "",
                 verified |-> "False", error_message |-> d] : d \in Diagnostics}

\* `verified, error_message = self.verification.execute(code)` with the
\* outcome r: the targets are bound, or the TypeError of the unpacking leaves
\* generate_proof; the repository's agent has run Lean through its runner
Execute(code, r) ==
    /\ IF r.raises = ""
       THEN /\ lastExec' = [code |-> code, verified |-> r.verified]
            /\ lastDiagnostic' = r.error_message
            /\ UNCHANGED <<status, raised>>
       ELSE /\ UNCHANGED <<lastExec, lastDiagnostic>>
            /\ status' = "raised"
            /\ raised' = r.raises
    /\ IF verification = "VerificationAgent"
       THEN runner' = ExecuteCall(runner, r.run)
       ELSE runner' = runner
    /\ check' = check

\* the invocation goes on as f after the statement, or the exception raised
\* unwinds every invocation
SetTopAfter(r, f) ==
    stack' = IF r.raises = "" THEN [stack EXCEPT ![Len(stack)] = [f EXCEPT !.called = TRUE]]
             ELSE <<>>


(* ---- actions: one per call site group of coordinator.py ---------------------------*)

\* subgoal_decomposition, lines 59-62: the depth check and the loop entry
SubgoalDecomposition ==
    /\ Running("sd_entry")
    /\ SetTop(IF AtMaxDepth(Top.depth)
              THEN ReturnFrom(Top, None, 61)
              ELSE SketchLoop(Top, 0))
    /\ UNCHANGED <<peers, check, max_depth, prover, verification, status, result, lastExec, lastDiagnostic,
                   raised, reasoner>>

\* lines 65-76: retrieve_theorems (query generation, retrieval, selection) and
\* generate_proof_sketch (informal proof, sketch); refine_and_validate_sketch is entered
SketchAttempt ==
    /\ Running("sd_attempt")
    /\ SetTopCalled(PassLoop([Top EXCEPT
                            !.relevant_theorems = RetrievedTheorems,
                            !.sketch = GeneratedSketch,
                            !.nsketch = @ + 1,
                            !.rv_result = NotReturned], 0))
    /\ Tally(4)
    /\ UNCHANGED <<peers, check, max_depth, prover, verification, status, result, lastExec, lastDiagnostic,
                   raised>>

\* refine_and_validate_sketch line 131 and complete_and_correct_syntax_error
\* lines 184-190: the first check of header + sketch
CompleteAndCorrectSyntaxError ==
    /\ Running("rv_pass")
    /\ \E r \in ExecuteResults :
        /\ Execute(Header \o NL \o Top.sketch, r)
        /\ SetTopAfter(r, IF Truthy(r.verified)
                  THEN SyntaxOk([Top EXCEPT !.verified_at_once = (Top.pass_no = 0),
                                            !.cs_execs = 1],
                                Top.sketch)
                  ELSE SyntaxLoop([Top EXCEPT
                                      !.cs_execs = 1,
                                      !.cs_sketch = Top.sketch,
                                      !.error_message = r.error_message,
                                      !.cs_diags = <<r.error_message>>], 0))
    /\ UNCHANGED <<retrieval, client, agent_state, max_depth, prover, verification, result, reasoner>>

\* complete_and_correct_syntax_error lines 191-202: one pass of the correction loop
CorrectSketchError ==
    /\ Running("cs_loop")
    /\ \E r \in ExecuteResults :
        LET augmented == AugmentTheorems(Top.error_message, Top.relevant_theorems,
                                         RetrievedTheorems)
            sketch == CorrectSketchError_Answer(Top.cs_sketch, Top.error_message,
                                                augmented)
            f == [Top EXCEPT !.cs_retrievals = @ + Retrievals(Top.error_message),
                             !.cs_reasoner =
                                 @ + 2 * Retrievals(Top.error_message) + 1,
                             !.cs_theorems = augmented,
                             !.cs_execs = @ + 1]
        IN /\ Execute(Header \o NL \o sketch, r)
           /\ SetTopAfter(r, IF Truthy(r.verified)
                     THEN SyntaxOk(f, sketch)
                     ELSE SyntaxLoop([f EXCEPT
                                         !.augmented_theorems = augmented,
                                         !.cs_sketch = sketch,
                                         !.error_message = r.error_message,
                                         !.cs_diags = Append(@, r.error_message)],
                                     Top.k + 1))
    /\ Tally(2 * Retrievals(Top.error_message) + 1)
    /\ UNCHANGED <<retrieval, client, agent_state, max_depth, prover, verification, result>>

\* refine_and_validate_sketch lines 139-150: compress, keep the compressed sketch
\* only if it verifies
CompressSketch ==
    /\ Running("rv_compress")
    /\ \E r \in ExecuteResults :
        LET sketch_compressed == CompressedSketch
        IN /\ Execute(Header \o NL \o sketch_compressed, r)
           /\ SetTopAfter(r, [Top EXCEPT
                        !.pc = "es_extract",
                        !.sketch_syntactic =
                            KeptSketch(Truthy(r.verified), @, sketch_compressed),
                        !.compress_verified = IF Truthy(r.verified) THEN "yes" ELSE "no",
                        !.cs_diags = <<>>, !.cs_retrievals = 0,
                        !.cs_execs = 0, !.cs_reasoner = 0, !.cs_theorems = <<>>])
    /\ Tally(1)
    /\ UNCHANGED <<retrieval, client, agent_state, max_depth, prover, verification, result>>

\* extract_subgoals line 241-243: the Reasoner splits the sketch
ExtractSubgoals ==
    /\ Running("es_extract")
    /\ \E subgoals \in SubgoalLists(Top.depth, reasoner.inner) :
        SetTopCalled(ExtractFrom([Top EXCEPT !.extracted = subgoals,
                                       !.correct_subgoals = <<>>,
                                       !.extracted_all = subgoals,
                                       !.extract_from = Top.sketch_syntactic], 1))
    /\ Tally(1)
    /\ UNCHANGED <<peers, check, max_depth, prover, verification, status, result, lastExec, lastDiagnostic,
                   raised>>

\* extract_subgoals lines 246-251: the first check of header + subgoal
VerifySubgoal ==
    /\ Running("es_check")
    /\ \E r \in ExecuteResults :
        LET subgoal == Top.extracted[Top.i]
        IN /\ Execute(Header \o NL \o subgoal, r)
           /\ SetTopAfter(r, IF Truthy(r.verified)
                     THEN ExtractFrom([Top EXCEPT !.correct_subgoals = Append(@, subgoal)],
                                      Top.i + 1)
                     ELSE SubgoalLoop([Top EXCEPT !.error_message = r.error_message], 0))
    /\ UNCHANGED <<retrieval, client, agent_state, max_depth, prover, verification, result, reasoner>>

\* extract_subgoals lines 252-262: one pass of the subgoal correction loop
CorrectTheoremError ==
    /\ Running("es_correct")
    /\ \E r \in ExecuteResults :
        LET correct_subgoal == CorrectedSubgoal(Top.extracted[Top.i])
        IN /\ Execute(Header \o NL \o correct_subgoal, r)
           /\ SetTopAfter(r, IF Truthy(r.verified)
                     THEN ExtractFrom([Top EXCEPT
                                          !.correct_subgoals = Append(@, correct_subgoal)],
                                      Top.i + 1)
                     ELSE SubgoalLoop([Top EXCEPT !.error_message = r.error_message],
                                      Top.k + 1))
    /\ Tally(1)
    /\ UNCHANGED <<retrieval, client, agent_state, max_depth, prover, verification, result>>


\* assemble_proof_from_subgoals lines 268-272 and
\* verify_and_correct_proof_with_theorems lines 284-291: assemble, first check
AssembleProofFromSubgoals ==
    /\ Running("as_assemble")
    /\ \E r \in ExecuteResults :
        LET sketch_assembled == AssembledSketch
            theorems_block == Join(NL \o NL, Top.subgoals)
            full_proof == FullProofWithTheorems(theorems_block, sketch_assembled)
            f == [Top EXCEPT !.assembled_from = Top.sketch_syntactic]
        IN /\ Execute(full_proof, r)
           /\ SetTopAfter(r, IF Truthy(r.verified)
                     THEN AssemblyOk([f EXCEPT !.assembly_accepted = full_proof],
                                     sketch_assembled)
                     ELSE AssemblyLoop([f EXCEPT
                                           !.assembled_raw = sketch_assembled,
                                           !.error_message = r.error_message], 0))
    /\ Tally(1)
    /\ UNCHANGED <<retrieval, client, agent_state, max_depth, prover, verification, result>>

\* verify_and_correct_proof_with_theorems lines 292-303: one pass of the repair loop
AssemblyCorrection ==
    /\ Running("as_correct")
    /\ \E r \in ExecuteResults :
        LET corrected_proof == CorrectedAssembly
            theorems_block == Join(NL \o NL, Top.subgoals)
            full_proof == FullProofWithTheorems(theorems_block, corrected_proof)
        IN /\ Execute(full_proof, r)
           /\ SetTopAfter(r, IF Truthy(r.verified)
                     THEN AssemblyOk([Top EXCEPT !.assembly_accepted = full_proof],
                                     corrected_proof)
                     ELSE AssemblyLoop([Top EXCEPT !.error_message = r.error_message],
                                       Top.k + 1))
    /\ Tally(1)
    /\ UNCHANGED <<retrieval, client, agent_state, max_depth, prover, verification, result>>

\* a Prover loop that has the Verifier check an empty output too
AttempProverllmProof_ChecksEmpty ==
    /\ Running("pv_attempt")
    /\ \E proof \in ProverOutputs(CurrentSubgoal(Top)), r \in ExecuteResults :
        LET f == [Top EXCEPT !.prover_called = TRUE,
                             !.pv_prover = @ + 1,
                             !.pv_empty = IF proof = Empty THEN @ + 1 ELSE @,
                             !.pv_execs = @ + 1]
        IN /\ Execute(proof, r)
           /\ SetTopAfter(r, IF Truthy(r.verified)
                     THEN ProverSucceeded(f, proof)
                     ELSE ProverLoop(f, Top.k + 1))
    /\ UNCHANGED <<retrieval, client, agent_state, max_depth, prover, verification, result, reasoner>>

\* attemp_proverllm_proof lines 335-344: one pass of the Prover loop, for
\* validate_subgoals (line 311) or solve_subgoal (line 415)
AttempProverllmProof ==
    /\ Running("pv_attempt")
    /\ \E proof \in ProverOutputs(CurrentSubgoal(Top)) :
        LET f == [Top EXCEPT !.prover_called = TRUE,
                             !.pv_prover = @ + 1,
                             !.pv_empty = IF proof = Empty THEN @ + 1 ELSE @,
                             !.pv_execs = IF proof = Empty THEN @ ELSE @ + 1]
        IN IF proof = Empty
           THEN /\ SetTopCalled(ProverLoop(f, Top.k + 1))
                /\ UNCHANGED <<lastExec, lastDiagnostic, check, runner, status, raised>>
           ELSE \E r \in ExecuteResults :
                   /\ Execute(proof, r)
                   /\ SetTopAfter(r, IF Truthy(r.verified)
                             THEN ProverSucceeded(f, proof)
                             ELSE ProverLoop(f, Top.k + 1))
    /\ UNCHANGED <<retrieval, client, agent_state, max_depth, prover, verification, result, reasoner>>

\* validate_subgoals lines 318-323: the Reasoner judges the subgoal
CheckMathematicCorrectness ==
    /\ Running("vs_judge")
    /\ \E correct \in BOOLEAN :
        SetTopCalled(IF correct
               THEN JudgedCorrect(AfterProver(Top))
               ELSE [AfterProver(Top) EXCEPT
                        !.pc = "rv_refine",
                        !.error_justification = <<"justification">>])
    /\ Tally(1)
    /\ UNCHANGED <<peers, check, max_depth, prover, verification, status, result, lastExec, lastDiagnostic,
                   raised>>

\* refine_and_validate_sketch lines 168-170: refine the sketch, next pass
RefineSketchBasedError ==
    /\ Running("rv_refine")
    /\ SetTopCalled(PassLoop([Top EXCEPT !.sketch = RefinedSketch], Top.pass_no + 1))
    /\ Tally(1)
    /\ UNCHANGED <<peers, check, max_depth, prover, verification, status, result, lastExec, lastDiagnostic,
                   raised>>

\* solve_subgoal lines 421-422 and general_llm_proof lines 442-450: retrieve,
\* the Reasoner's proof, its first check
GeneralLlmProof ==
    /\ Running("ss_general")
    /\ \E proof \in ReasonerProofs(CurrentSubgoal(Top)) :
        IF proof = Empty
        THEN /\ SetTopCalled(GeneralFailed(AfterProver(Top)))
             /\ UNCHANGED <<lastExec, lastDiagnostic, check, runner, status, raised>>
        ELSE \E r \in ExecuteResults :
                /\ Execute(Header \o NL \o proof, r)
                /\ SetTopAfter(r, IF Truthy(r.verified)
                          THEN SubgoalReturn([AfterProver(Top) EXCEPT !.outcome.reasoner = "proved"],
                                             proof)
                          ELSE GeneralLoop([AfterProver(Top) EXCEPT
                                               !.ss_theorems = RetrievedTheorems,
                                               !.proof = proof,
                                               !.error_message = r.error_message], 0))
    /\ Tally(3)
    /\ UNCHANGED <<retrieval, client, agent_state, max_depth, prover, verification, result>>

\* general_llm_proof lines 451-462: one pass of the proof correction loop
CorrectProofError ==
    /\ Running("gp_correct")
    /\ \E proof \in {Empty, <<CurrentSubgoal(Top)[1], ":= by reasoner, corrected">>} :
        LET augmented == AugmentTheorems(Top.error_message, Top.ss_theorems,
                                         RetrievedTheorems)
            f == [Top EXCEPT !.augmented_theorems = augmented, !.proof = proof]
        IN IF proof = Empty
           THEN /\ SetTopCalled(GeneralLoop(f, Top.k + 1))
                /\ UNCHANGED <<lastExec, lastDiagnostic, check, runner, status, raised>>
           ELSE \E r \in ExecuteResults :
                   /\ Execute(Header \o NL \o proof, r)
                   /\ SetTopAfter(r, IF Truthy(r.verified)
                             THEN SubgoalReturn([Top EXCEPT !.outcome.reasoner = "proved"],
                                                proof)
                             ELSE GeneralLoop([f EXCEPT !.error_message = r.error_message],
                                              Top.k + 1))
    /\ Tally(2 * Retrievals(Top.error_message) + 1)
    /\ UNCHANGED <<retrieval, client, agent_state, max_depth, prover, verification, result>>

\* a recursive call that is handed the caller's map of proofs
RecursiveDecomposition_SharedMap ==
    /\ Running("ss_decompose")
    /\ IF Top.depth < max_depth
       THEN stack' = [stack EXCEPT ![Len(stack)] = [Top EXCEPT !.pc = "ss_wait"]]
                        \o <<[Frame(CurrentSubgoal(Top), Top.depth + 1) EXCEPT
                                 !.subgoals_proved = Top.subgoals_proved]>>
       ELSE SetTop(SubgoalReturn(Top, None))
    /\ UNCHANGED <<peers, check, max_depth, prover, verification, status, result, lastExec, lastDiagnostic,
                   raised, reasoner>>

\* solve_subgoal lines 427-434: recursive decomposition of the subgoal, or give up
RecursiveDecomposition ==
    /\ Running("ss_decompose")
    /\ IF Top.depth < max_depth
       THEN stack' = [stack EXCEPT ![Len(stack)] = [Top EXCEPT !.pc = "ss_wait"]]
                        \o <<Frame(CurrentSubgoal(Top), Top.depth + 1)>>
       ELSE SetTop(SubgoalReturn(Top, None))
    /\ UNCHANGED <<peers, check, max_depth, prover, verification, status, result, lastExec, lastDiagnostic,
                   raised, reasoner>>

\* subgoal_decomposition returns: to solve_subgoal line 429 of the caller, or,
\* at the outermost level, through generate_proof (line 55) to the user
ReturnFromDecomposition ==
    /\ Running("sd_return")
    /\ IF Len(stack) = 1
       THEN /\ stack' = <<>>
            /\ status' = "returned"
            /\ result' = Top.retval
       ELSE LET caller == stack[Len(stack) - 1]
                proof == Top.retval
            IN /\ stack' = [SubSeq(stack, 1, Len(stack) - 1) EXCEPT
                              ![Len(stack) - 1] =
                                  SubgoalReturn(
                                      [caller EXCEPT !.outcome.decomposition =
                                          IF proof # None THEN "proved" ELSE "none"],
                                      proof)]
               /\ UNCHANGED <<status, result>>
    /\ UNCHANGED <<peers, check, max_depth, prover, verification, lastExec, lastDiagnostic,
                   raised, reasoner>>

\* a loop that goes back to the first subgoal after each one
SolveAllSubgoals_FromStart ==
    /\ Running("ss_return")
    /\ SetTop(SolveAllFrom(
                [AfterProver(Top) EXCEPT !.subgoals_proved =
                    RecordProof(@, Top.verified_subgoals[Top.i], Top.proof)],
                1))
    /\ UNCHANGED <<peers, check, max_depth, prover, verification, status, result, lastExec, lastDiagnostic,
                   raised, reasoner>>

\* a loop that gives up at the first subgoal no strategy solved
SolveAllSubgoals_AbortsOnFailure ==
    /\ Running("ss_return")
    /\ SetTop(IF Top.proof = None
              THEN ReturnFrom(Top, None, 81)
              ELSE SolveAllFrom(
                       [AfterProver(Top) EXCEPT !.subgoals_proved =
                           RecordProof(@, Top.verified_subgoals[Top.i], Top.proof)],
                       Top.i + 1))
    /\ UNCHANGED <<peers, check, max_depth, prover, verification, status, result, lastExec, lastDiagnostic,
                   raised, reasoner>>

\* solve_all_subgoals lines 378-381: record the proof solve_subgoal returned and
\* go on with the next subgoal
SolveAllSubgoals ==
    /\ Running("ss_return")
    /\ SetTop(SolveAllFrom(
                [AfterProver(Top) EXCEPT !.subgoals_proved =
                    RecordProof(@, Top.verified_subgoals[Top.i], Top.proof)],
                Top.i + 1))
    /\ UNCHANGED <<peers, check, max_depth, prover, verification, status, result, lastExec, lastDiagnostic,
                   raised, reasoner>>

\* solve_all_subgoals lines 384-394 and subgoal_decomposition line 81: compose,
\* verify, return the composed proof or None
FinalVerification ==
    /\ Running("sa_final")
    /\ \E r \in ExecuteResults :
        LET final_proof == ConcatenateProofs(Top.subgoals_proved, Top.sketch_assembled)
        IN /\ Execute(final_proof, r)
           /\ SetTopAfter(r, [ReturnFrom(Top, FinalResult(Truthy(r.verified), final_proof), 81)
                              EXCEPT !.rv_result = NotReturned,
                                     !.verified_at_once = Top.verified_at_once,
                                     !.extracted_all = Top.extracted_all,
                                     !.prover_called = Top.prover_called])
    /\ UNCHANGED <<retrieval, client, agent_state, max_depth, prover, verification, result, reasoner>>

Next ==
    \/ SubgoalDecomposition
    \/ SketchAttempt
    \/ CompleteAndCorrectSyntaxError
    \/ CorrectSketchError
    \/ CompressSketch
    \/ ExtractSubgoals
    \/ VerifySubgoal
    \/ CorrectTheoremError
    \/ AssembleProofFromSubgoals
    \/ AssemblyCorrection
    \/ AttempProverllmProof
    \/ CheckMathematicCorrectness
    \/ RefineSketchBasedError
    \/ GeneralLlmProof
    \/ CorrectProofError
    \/ RecursiveDecomposition
    \/ ReturnFromDecomposition
    \/ SolveAllSubgoals
    \/ FinalVerification

Spec == Init /\ [][Next]_vars

\* the scheduling of the code: it is sequential and every collaborator call
\* returns, so the running invocation always takes its next step
FairSpec == Init /\ [][Next]_vars /\ WF_vars(Next)

\* the same coordinator, and for max_depth below MaxDepthBound also over a
\* Reasoner that counts the calls made to it
CountSpec ==
    /\ \E counted \in BOOLEAN :
          /\ Constructed("pairs", 0, counted)
          /\ counted => max_depth < MaxDepthBound
    /\ [][Next]_vars

\* the same coordinator, and when it is built without a Prover also over a
\* Reasoner that splits the sketch of a subgoal too, into at most
\* MaxInnerSubgoals subgoals
DeepSpec ==
    /\ \E inner \in {0, MaxInnerSubgoals} :
          /\ Constructed("pairs", inner, FALSE)
          /\ inner > 0 => prover = "None"
    /\ [][Next]_vars

(* ---- the coordinator and the Verifier classes as the repository has them ------------
   A second specification: the coordinator built over a VerificationAgent
   object and its Lean4Runner as well as over a pair-answering Verifier, where
   in addition a call to the Reasoner or the Retriever may raise (coordinator.py
   has no try statement, so the exception leaves generate_proof); and, on its
   own, the verification that test_verification.py makes (VerifierInit: the
   constructor is called first, and raises), and one execute call entered on
   an object of the class (ExecuteInit).                                        *)

\* a Reasoner or Retriever call raises at one of the positions whose next step
\* calls the Reasoner or the Retriever: the exception unwinds every invocation
\* and leaves generate_proof
ReasonerOrRetrieverRaises ==
    /\ status = "running" /\ Len(stack) > 0
    /\ Top.pc \in {"sd_attempt", "cs_loop", "rv_compress", "es_extract", "es_correct",
                   "as_assemble", "as_correct", "vs_judge", "rv_refine", "ss_general",
                   "gp_correct"}
    /\ stack' = <<>>
    /\ status' = "raised"
    /\ raised' = "ReasonerOrRetrieverError"
    /\ UNCHANGED <<peers, check, max_depth, prover, verification, result, lastExec, lastDiagnostic,
                   reasoner>>

\* test_verification.py:32-35: the coordinator not running, a Lean4Runner just
\* built, and VerificationAgent(lean_runner=lean_runner) about to be called
VerifierInit ==
    /\ CoordinatorIdle
    /\ retrieval = NoRetrieval /\ client = NoClient /\ agent_state = NoAgentState
    /\ \E cleanup \in BOOLEAN, temp_dir \in BOOLEAN :
          runner = [NoRunner EXCEPT !.pc = "ready", !.cleanup = cleanup,
                                    !.temp_dir = temp_dir]
    /\ \E code \in {Header \o NL \o GeneratedSketch, Header \o NL \o <<"lemma1">>} :
          check = [NoCheck EXCEPT !.pc = "construct", !.code = code]

\* execute(code) is entered on an object of class VerificationAgent whose
\* lean_runner is a Lean4Runner just built. No call VerificationAgent(...) gives
\* such an object (ConstructAgent): it is one made without that __init__, as a
\* subclass with an __init__ of its own or object.__new__ makes it
ExecuteInit ==
    /\ CoordinatorIdle
    /\ retrieval = NoRetrieval /\ client = NoClient /\ agent_state = NoAgentState
    /\ \E cleanup \in BOOLEAN, temp_dir \in BOOLEAN :
          runner = [NoRunner EXCEPT !.pc = "ready", !.cleanup = cleanup,
                                    !.temp_dir = temp_dir]
    /\ \E code \in {Header \o NL \o GeneratedSketch, Header \o NL \o <<"lemma1">>,
                    <<"lemma1", ":= by prover">>},
          run \in LeanRuns(runner) :
          check = [NoCheck EXCEPT !.pc = "lean_runner", !.code = code,
                                  !.written = run.written, !.remove = run.remove,
                                  !.process = run.process, !.stdout = run.stdout,
                                  !.stderr = run.stderr]

\* VerificationAgent.__init__, lines 14-16: `super.__init__()` is called on the
\* type super itself and raises TypeError, so no agent is made, execute is not
\* called and no Lean run takes place
ConstructAgent ==
    /\ check.pc = "construct"
    /\ check' = [check EXCEPT !.pc = "not constructed", !.raised = "TypeError"]
    /\ UNCHANGED <<peers, coordinator>>

\* VerificationAgent.execute line 23: result = self.lean_runner.execute(full_proof)
RunLean ==
    /\ check.pc = "lean_runner"
    /\ check' = [check EXCEPT
                    !.pc = "verification_agent",
                    !.result = Lean4RunnerExecute(check.process, check.stdout, check.stderr)]
    /\ runner' = ExecuteCall(runner, [written |-> check.written, process |-> check.process,
                                      stdout |-> check.stdout, stderr |-> check.stderr,
                                      remove |-> check.remove])
    /\ UNCHANGED <<retrieval, client, agent_state, coordinator>>

\* VerificationAgent.execute lines 24-32: the value it returns
ReturnFromExecute ==
    /\ check.pc = "verification_agent"
    /\ check' = [check EXCEPT !.pc = "unpack",
                              !.returned = VerificationAgentExecute(check.result)]
    /\ UNCHANGED <<peers, coordinator>>

\* the caller's `verified, error_message = self.verification.execute(code)`
\* (coordinator.py:186 and the like; test_verification.py:40, 67)
UnpackResult ==
    /\ check.pc = "unpack"
    /\ check' = [check EXCEPT !.pc = "done",
                              !.raised = UnpackRaises(check.returned),
                              !.unpacked = Unpack(check.returned)]
    /\ UNCHANGED <<peers, coordinator>>

RepoNext ==
    \/ Next
    \/ ReasonerOrRetrieverRaises
    \/ ConstructAgent
    \/ RunLean
    \/ ReturnFromExecute
    \/ UnpackResult

RepoSpec ==
    /\ \/ Constructed("VerificationAgent", 0, FALSE)
       \/ Init
       \/ VerifierInit
       \/ ExecuteInit
    /\ [][RepoNext]_vars

(* ---- RetrieverAgent.batch_retrieve, one call ---------------------------------------*)

\* the lists of at most n queries
RECURSIVE QueryLists(_)
QueryLists(n) ==
    IF n = 0 THEN {<<>>}
    ELSE QueryLists(n - 1)
             \cup {Append(qs, q) : qs \in {l \in QueryLists(n - 1) : Len(l) = n - 1},
                                   q \in Queries}

\* batch_retrieve(queries, top_k) is entered: total_results = [] (line 35)
RetrieverInit ==
    /\ CoordinatorIdle
    /\ check = NoCheck
    /\ runner = NoRunner /\ client = NoClient /\ agent_state = NoAgentState
    /\ \E index \in Indexes, queries \in QueryLists(MaxQueries),
          top_k \in 1..MaxTopK :
          retrieval = [pc |-> "for_query", index |-> index, queries |-> queries,
                       top_k |-> top_k, i |-> 1, total_results |-> <<>>,
                       returned |-> <<>>]

\* lines 36-38: one iteration, total_results.extend(self.retrieve(query, top_k))
RetrieveQuery ==
    /\ retrieval.pc = "for_query"
    /\ retrieval.i <= Len(retrieval.queries)
    /\ retrieval' = [retrieval EXCEPT
                        !.i = @ + 1,
                        !.total_results =
                            @ \o Retrieve(retrieval.index,
                                          retrieval.queries[retrieval.i],
                                          retrieval.top_k)]
    /\ UNCHANGED <<coordinator, check, runner, client, agent_state>>

\* lines 39-40: the loop is over, the sorted list is returned
ReturnSorted ==
    /\ retrieval.pc = "for_query"
    /\ retrieval.i > Len(retrieval.queries)
    /\ retrieval' = [retrieval EXCEPT
                        !.pc = "returned",
                        !.returned = SortedByScore(retrieval.total_results)]
    /\ UNCHANGED <<coordinator, check, runner, client, agent_state>>

RetrieverNext == RetrieveQuery \/ ReturnSorted

RetrieverSpec == RetrieverInit /\ [][RetrieverNext]_vars

(* ---- Lean4Runner.execute and cleanup_temp_files on one runner -------------------------*)

\* Lean4Runner(project_path, cleanup=...) has been built: temp_files = []
RunnerInit ==
    /\ CoordinatorIdle
    /\ check = NoCheck
    /\ retrieval = NoRetrieval /\ client = NoClient /\ agent_state = NoAgentState
    /\ \E cleanup \in BOOLEAN, temp_dir \in BOOLEAN :
          runner = [NoRunner EXCEPT !.pc = "ready", !.cleanup = cleanup,
                                    !.temp_dir = temp_dir]

\* execute lines 73-76: the path of the call is made and appended to temp_files
EnterExecute ==
    /\ runner.pc \in {"ready", "returned"}
    /\ runner.calls < MaxExecuteCalls
    /\ runner' = [runner EXCEPT !.pc = "write",
                                !.calls = @ + 1,
                                !.temp_path = TempPath(runner.calls + 1),
                                !.temp_files = Append(@, TempPath(runner.calls + 1)),
                                !.outcome = ""]
    /\ UNCHANGED <<coordinator, check, retrieval, client, agent_state>>

\* lines 79-83: the code is written to the file, or the try block is left with
\* an exception (caught at lines 126-158)
WriteTempFile ==
    /\ runner.pc = "write"
    /\ \E written \in WriteOutcomes(runner.temp_dir) :
          runner' = IF written = "written"
                    THEN [runner EXCEPT !.pc = "run", !.disk = @ \cup {runner.temp_path}]
                    ELSE IF written = "created"
                    THEN [runner EXCEPT !.pc = "finally", !.disk = @ \cup {runner.temp_path},
                                        !.outcome = "Exception"]
                    ELSE [runner EXCEPT !.pc = "finally", !.outcome = written]
    /\ UNCHANGED <<coordinator, check, retrieval, client, agent_state>>

\* lines 86-158: `lake lean` exits, or raises; every outcome is turned into a
\* Lean4Result to return
RunProcess ==
    /\ runner.pc = "run"
    /\ \E process \in Processes :
          runner' = [runner EXCEPT !.pc = "finally", !.outcome = process]
    /\ UNCHANGED <<coordinator, check, retrieval, client, agent_state>>

\* lines 159-167: the finally block, then the return
LeaveExecute ==
    /\ runner.pc = "finally"
    /\ \E remove \in {"removed", "PermissionError"} :
          runner' = [Finally(runner, remove) EXCEPT !.pc = "returned"]
    /\ UNCHANGED <<coordinator, check, retrieval, client, agent_state>>

\* cleanup_temp_files(), lines 321-329, whenever no execute call is running
CleanupTempFiles ==
    /\ runner.pc \in {"ready", "returned"}
    /\ \E failing \in SUBSET {runner.temp_files[j] : j \in 1..Len(runner.temp_files)} :
          runner' = [CleanupFrom(runner, runner.temp_files, 1, failing)
                        EXCEPT !.pc = "ready"]
    /\ UNCHANGED <<coordinator, check, retrieval, client, agent_state>>

RunnerNext ==
    \/ EnterExecute
    \/ WriteTempFile
    \/ RunProcess
    \/ LeaveExecute
    \/ CleanupTempFiles

RunnerSpec == RunnerInit /\ [][RunnerNext]_vars

(* ---- OpenAIClient.generate (src/src/llm/openai_client.py) -----------------------------*)
\* The client's state during one generate call: the position in it, whether
\* validate_messages accepted the messages, the two retry settings, the loop
\* variable, last_error, what each chat.completions.create call did, the
\* arguments of the time.sleep calls, and how the call ended.

\* what one chat.completions.create call can do: give a completion, or raise
\* one of the exception classes the handlers name
APIOutcomes ==
    {"completion", "RateLimitError", "APIConnectionError", "APIError", "Exception"}

\* the classes an exception of the class is an instance of
Classes(e) ==
    CASE e = "RateLimitError" -> {"RateLimitError", "APIError", "Exception"}
      [] e = "APIConnectionError" -> {"APIConnectionError", "APIError", "Exception"}
      [] e = "APIError" -> {"APIError", "Exception"}
      [] OTHER -> {"Exception"}

\* handlers that mean to retry come before the one for the other API errors
ExceptClauses_ExceptionFirst ==
    <<"RateLimitError", "APIConnectionError", "Exception", "APIError">>

\* generate lines 124-162: the except clauses in the order they are written
ExceptClauses == <<"RateLimitError", "APIConnectionError", "APIError", "Exception">>

\* the except clause that handles the exception: the first one it is an
\* instance of
Handler(e) ==
    ExceptClauses[CHOOSE j \in 1..Len(ExceptClauses) :
                     /\ ExceptClauses[j] \in Classes(e)
                     /\ \A i \in 1..(j - 1) : ExceptClauses[i] \notin Classes(e)]

\* the same delay before every retry
WaitTime_Constant(retry_delay, attempt) == retry_delay

\* generate lines 127, 138, 155: wait_time = retry_delay * (2 ** attempt)
WaitTime(retry_delay, attempt) == retry_delay * 2^attempt

\* a generate call begins, with its messages and the retry settings of the
\* configuration or the keyword arguments (retry_delay in seconds)
ClientInit ==
    /\ CoordinatorIdle
    /\ check = NoCheck
    /\ retrieval = NoRetrieval /\ runner = NoRunner /\ agent_state = NoAgentState
    /\ \E valid \in BOOLEAN, max_retries \in 0..MaxRetries, retry_delay \in {1, 3} :
          client = [NoClient EXCEPT !.pc = "generate", !.valid = valid,
                                    !.max_retries = max_retries,
                                    !.retry_delay = retry_delay]

\* generate lines 62-95: invalid messages raise ValueError before any API call;
\* otherwise the loop starts with attempt 0 and no last_error
Generate ==
    /\ client.pc = "generate"
    /\ client' = IF client.valid
                  THEN [client EXCEPT !.pc = "for", !.attempt = 0, !.last_error = ""]
                  ELSE [client EXCEPT !.pc = "raised", !.outcome = "ValueError"]
    /\ UNCHANGED <<coordinator, check, retrieval, runner, agent_state>>

\* generate lines 96-162, one iteration of `for attempt in range(max_retries)`
\* up to its return, raise or time.sleep call; the clause for APIError
\* re-raises at once, the other three retry
CallAPI ==
    /\ client.pc = "for"
    /\ client.attempt < client.max_retries
    /\ \E o \in APIOutcomes :
          LET called == [client EXCEPT !.calls = Append(@, o)]
          IN client' =
               IF o = "completion"
               THEN [called EXCEPT !.pc = "returned", !.outcome = "LLMResponse"]
               ELSE IF Handler(o) = "APIError"
               THEN [called EXCEPT !.pc = "raised", !.outcome = o]
               ELSE IF client.attempt < client.max_retries - 1
               THEN [called EXCEPT !.pc = "sleep", !.last_error = o]
               ELSE [called EXCEPT !.pc = "raised", !.last_error = o, !.outcome = o]
    /\ UNCHANGED <<coordinator, check, retrieval, runner, agent_state>>

\* generate lines 127-130 (and 138-141, 155-158): time.sleep(wait_time), then
\* the next iteration
Sleep ==
    /\ client.pc = "sleep"
    /\ client' = [client EXCEPT
                     !.pc = "for",
                     !.sleeps = Append(@, WaitTime(client.retry_delay, client.attempt)),
                     !.attempt = @ + 1]
    /\ UNCHANGED <<coordinator, check, retrieval, runner, agent_state>>

\* generate line 165, after the loop: raise last_error if last_error else
\* Exception("Unknown error occurred")
AfterLoop ==
    /\ client.pc = "for"
    /\ client.attempt >= client.max_retries
    /\ client' = [client EXCEPT
                     !.pc = "raised",
                     !.outcome = IF client.last_error # "" THEN client.last_error
                                 ELSE "Exception"]
    /\ UNCHANGED <<coordinator, check, retrieval, runner, agent_state>>

ClientNext ==
    \/ Generate
    \/ CallAPI
    \/ Sleep
    \/ AfterLoop

ClientSpec == ClientInit /\ [][ClientNext]_vars

(* ---- VerificationAgent.execute2 (src/src/agent/verification_agent.py) ----------------*)
\* One AgentState and the execute2 calls made on it: its task_template,
\* current_proof and error_history, the number of execute2 calls and of
\* lean_runner.execute calls, the error_history and the number of Lean runs
\* when the call in progress (or the last one) began, the code given to Lean,
\* and the dict the last call returned.

CurrentProofs == {<<"simp">>, <<"omega">>}

\* "{proof}" in task_template
HasPlaceholder(task_template) ==
    \E j \in 1..Len(task_template) : task_template[j] = "{proof}"

\* task_template.replace("{proof}", current_proof)
RECURSIVE ReplaceProof(_, _)
ReplaceProof(task_template, current_proof) ==
    IF task_template = <<>> THEN <<>>
    ELSE (IF Head(task_template) = "{proof}" THEN current_proof
          ELSE <<Head(task_template)>>)
         \o ReplaceProof(Tail(task_template), current_proof)

\* execute2 line 40: the f-less literal keeps its doubled braces
TemplateError == <<"Template missing {{proof}} placeholder">>

\* execute2 line 68: the entry for a Lean failure
LeanErrorEntry(normalized_error, current_proof) ==
    <<"Lean error: ", normalized_error, "\nProof attempt:\n">> \o current_proof

\* an AgentState with a template, a proof and the history of earlier calls,
\* and a VerificationAgent object (made without its __init__, which raises)
\* over a Lean4Runner just built
AgentStateInit ==
    /\ CoordinatorIdle
    /\ check = NoCheck
    /\ retrieval = NoRetrieval /\ client = NoClient
    /\ \E cleanup \in BOOLEAN, temp_dir \in BOOLEAN :
          runner = [NoRunner EXCEPT !.pc = "ready", !.cleanup = cleanup,
                                    !.temp_dir = temp_dir]
    /\ \E task_template \in {<<"theorem t : p := by", "{proof}">>,
                             <<"theorem t : p := by", "sorry">>}, current_proof \in CurrentProofs,
          error_history \in {<<>>, <<LeanErrorEntry("Unknown Lean4 error", <<"rfl">>)>>} :
          agent_state = [NoAgentState EXCEPT !.pc = "ready",
                                             !.task_template = task_template,
                                             !.current_proof = current_proof,
                                             !.error_history = error_history]

\* a call that reports the missing placeholder without recording it
Execute2_SkipsRecord ==
    /\ agent_state.pc = "ready"
    /\ agent_state.calls < MaxExecute2Calls
    /\ LET called == [agent_state EXCEPT
                         !.calls = @ + 1,
                         !.history_at_call = agent_state.error_history,
                         !.runs_at_call = agent_state.lean_runs]
       IN agent_state' =
            IF ~HasPlaceholder(agent_state.task_template)
            THEN [called EXCEPT
                     !.pc = "returned",
                     !.ret = [type |-> "dict",
                              items |-> <<<<"success", FALSE>>, <<"error", TemplateError>>,
                                          <<"output", None>>>>]]
            ELSE [called EXCEPT
                     !.pc = "lean",
                     !.full_code = ReplaceProof(agent_state.task_template,
                                                agent_state.current_proof)]
    /\ UNCHANGED <<coordinator, check, retrieval, runner, client>>

\* execute2 lines 38-50: without the placeholder the message is appended and
\* the failure dict returned; otherwise full_code is made
Execute2 ==
    /\ agent_state.pc = "ready"
    /\ agent_state.calls < MaxExecute2Calls
    /\ LET called == [agent_state EXCEPT
                         !.calls = @ + 1,
                         !.history_at_call = agent_state.error_history,
                         !.runs_at_call = agent_state.lean_runs]
       IN agent_state' =
            IF ~HasPlaceholder(agent_state.task_template)
            THEN [called EXCEPT
                     !.pc = "returned",
                     !.error_history = Append(@, TemplateError),
                     !.ret = [type |-> "dict",
                              items |-> <<<<"success", FALSE>>, <<"error", TemplateError>>,
                                          <<"output", None>>>>]]
            ELSE [called EXCEPT
                     !.pc = "lean",
                     !.full_code = ReplaceProof(agent_state.task_template,
                                                agent_state.current_proof)]
    /\ UNCHANGED <<coordinator, check, retrieval, runner, client>>

\* execute2 lines 53-75: Lean is run on full_code through the runner; on
\* success the dict is returned, otherwise the error (the result has no
\* attribute `error`, so the default text) is appended with the proof and the
\* failure dict returned
Execute2RunLean ==
    /\ agent_state.pc = "lean"
    /\ \E run \in LeanRuns(runner) :
          /\ runner' = ExecuteCall(runner, run)
          /\ LET lean4_result == Lean4RunnerExecute(run.process, run.stdout, run.stderr)
                 success == GetAttr(lean4_result, "success", FALSE)
                 output == GetAttr(lean4_result, "output", <<>>)
                 error == GetAttr(lean4_result, "error", "")
                 normalized_error == IF error # "" THEN error ELSE "Unknown Lean4 error"
                 ran == [agent_state EXCEPT !.pc = "returned", !.lean_runs = @ + 1]
             IN agent_state' =
                  IF success
                  THEN [ran EXCEPT
                           !.ret = [type |-> "dict",
                                    items |-> <<<<"success", TRUE>>, <<"output", output>>>>]]
                  ELSE [ran EXCEPT
                           !.error_history =
                               Append(@, LeanErrorEntry(normalized_error,
                                                        agent_state.current_proof)),
                           !.ret = [type |-> "dict",
                                    items |-> <<<<"success", FALSE>>,
                                                <<"error", <<normalized_error>>>>,
                                                <<"output", output>>>>]]
    /\ UNCHANGED <<coordinator, check, retrieval, client>>

\* GenerationAgent.execute line 81: state.current_proof = proof, before the
\* next verification
SetCurrentProof ==
    /\ agent_state.pc = "returned"
    /\ agent_state.calls < MaxExecute2Calls
    /\ \E proof \in CurrentProofs :
          agent_state' = [agent_state EXCEPT !.pc = "ready", !.current_proof = proof]
    /\ UNCHANGED <<coordinator, check, retrieval, runner, client>>

AgentStateNext ==
    \/ Execute2
    \/ Execute2RunLean
    \/ SetCurrentProof

AgentStateSpec == AgentStateInit /\ [][AgentStateNext]_vars

(* ---- properties ----------------------------------------------------------------------*)
Frames == {stack[n] : n \in 1..Len(stack)}
\* the frame is inside solve_all_subgoals
InSolveAll(f) == f.caller = "solve_subgoal"
\* the frame is inside solve_subgoal, working on verified_subgoals[f.i]
InSolveSubgoal(f) == f.caller = "solve_subgoal" /\ f.i >= 1

\* C1: whenever subgoal_decomposition, at any depth, or generate_proof returns a
\* proof, the most recent Verifier.execute call was on exactly that text and
\* succeeded
C1_ReturnedProofVerifiedLast ==
    /\ \A f \in Frames :
          f.pc = "sd_return" /\ f.retval # None
              => lastExec.code = f.retval /\ Truthy(lastExec.verified)
    /\ status = "returned" /\ result # None
              => lastExec.code = result /\ Truthy(lastExec.verified)

\* a recursive invocation is returning a proof
C1_Witness == Len(stack) = 2 /\ Top.pc = "sd_return" /\ Top.retval # None

\* C2: every run ends with generate_proof returning, every invocation of
\* subgoal_decomposition having returned
C2_Terminates == <>(status = "returned" /\ stack = <<>>)

\* a recursive invocation has returned to the solve_subgoal that made it
C2_Witness ==
    Len(stack) = 1 /\ Top.pc = "ss_return" /\ Top.outcome.decomposition # "untried"

\* C3: an invocation at depth >= max_depth returns None at once, without a call
\* to any collaborator and without a sketch; the outermost invocation has depth 1
\* and every recursive one its caller's depth + 1
C3_DepthLimit ==
    \A n \in 1..Len(stack) :
        /\ stack[n].depth = IF n = 1 THEN 1 ELSE stack[n - 1].depth + 1
        /\ stack[n].depth >= max_depth =>
              /\ stack[n].pc \in {"sd_entry", "sd_return"}
              /\ ~stack[n].called
              /\ stack[n].nsketch = 0
              /\ stack[n].pc = "sd_return" =>
                    stack[n].retval = None /\ stack[n].ret_line = 61

\* a recursive invocation made at the depth limit is returning
C3_Witness == Len(stack) = 2 /\ Top.depth >= max_depth /\ Top.pc = "sd_return"

\* C4 (as claimed): when solve_all_subgoals returns None in a sketch attempt that
\* is not the last one, subgoal_decomposition goes on to the next attempt, so it
\* returns None only at the depth limit or with every attempt used
C4_FailedAttemptIsRetried ==
    \A f \in Frames :
        f.pc = "sd_return" /\ f.retval = None /\ f.ret_line # 61
            => f.attempt + 1 >= sketch_attemps

\* C5: an invocation that leaves the sketch loop without a validated sketch
\* returns None after exactly sketch_attemps sketch generations, and the
\* solve_subgoal that made a recursive invocation returning None returns None
C5_ExhaustionReturnsNone ==
    \A f \in Frames :
        /\ f.pc = "sd_return" /\ f.ret_line = 83
              => f.retval = None /\ f.nsketch = sketch_attemps
        /\ f.pc = "ss_return" /\ f.outcome.decomposition = "none"
              => f.proof = None

\* a recursive invocation has used up its sketch attempts and is returning
C5_Witness == Len(stack) = 2 /\ Top.pc = "sd_return" /\ Top.ret_line = 83

\* C6: with max_depth = 1 no recursive invocation is made, no sketch is generated
\* and generate_proof returns None
C6_MaxDepthOne ==
    max_depth = 1 =>
        /\ Len(stack) <= 1
        /\ \A f \in Frames : f.pc # "ss_wait"
        /\ status = "returned" => result = None

\* generate_proof has returned under max_depth = 1
C6_Witness == max_depth = 1 /\ status = "returned"

\* the positions inside one pass of refine_and_validate_sketch
InRefinePass(f) ==
    \/ f.pc \in {"rv_pass", "cs_loop", "rv_compress", "es_extract", "es_check",
                 "es_correct", "as_assemble", "as_correct", "vs_judge", "rv_refine"}
    \/ f.pc = "pv_attempt" /\ f.caller = "validate_subgoals"

\* C7: every bounded loop stays within its budget in every invocation: sketches
\* generated <= sketch_attemps, passes <= sketch_correction_attemps, and the
\* correction or attempt about to be made in a repair loop (the k+1-th of this
\* invocation of the loop) is within theorem_corrections, subgoal_corrections,
\* head_theorems_sketch, prover_attemps or general_llm_proof_attemps
C7_BudgetsRespected ==
    \A f \in Frames :
        /\ f.nsketch <= sketch_attemps
        /\ f.pc = "sd_attempt" => f.nsketch + 1 <= sketch_attemps
        /\ InRefinePass(f) => f.pass_no + 1 <= sketch_correction_attemps
        /\ f.pc = "cs_loop" => f.k + 1 <= theorem_corrections
        /\ f.pc = "es_correct" => f.k + 1 <= subgoal_corrections
        /\ f.pc = "as_correct" => f.k + 1 <= head_theorems_sketch
        /\ f.pc = "pv_attempt" => f.k + 1 <= prover_attemps
        /\ f.pc = "gp_correct" => f.k + 1 <= general_llm_proof_attemps

\* C7 (as written) every loop stays within its budget, and so the number of
\* calls made to the Reasoner in a run never exceeds the product of these
\* budgets along the depth path: one factor BudgetProduct for each level of
\* the path that runs its loops, which are the levels below max_depth
C7_CallsWithinBudgetProduct ==
    /\ C7_BudgetsRespected
    /\ reasoner.counted => reasoner.calls <= BudgetProduct ^ (max_depth - 1)

\* the last Prover attempt the budget allows is about to be made for a subgoal
\* of the last sketch the budget allows
C7_Witness ==
    /\ Len(stack) = 1 /\ Top.pc = "pv_attempt"
    /\ Top.k + 1 = prover_attemps /\ Top.nsketch = sketch_attemps

\* C8: while a frame is inside one solve_all_subgoals call, a step leaves the
\* map of proofs found in this call unchanged or adds the subgoal just solved;
\* no key is removed, and the map received from validation is not changed
C8_ProvedMapOnlyGrows ==
    [][\A n \in 1..Len(stack) :
          (n <= Len(stack') /\ InSolveAll(stack[n]) /\ InSolveAll(stack'[n]))
          => /\ DictKeys(stack[n].subgoals_proved)
                    \subseteq DictKeys(stack'[n].subgoals_proved)
             /\ \/ stack'[n].subgoals_proved = stack[n].subgoals_proved
                \/ /\ stack[n].pc = "ss_return"
                   /\ stack[n].proof # None
                   /\ stack'[n].subgoals_proved =
                        DictSet(stack[n].subgoals_proved,
                                stack[n].verified_subgoals[stack[n].i],
                                stack[n].proof)
             /\ stack'[n].proved_subgoals = stack[n].proved_subgoals]_vars

\* two subgoals have been solved and recorded in one solve_all_subgoals call
C8_Witness == Len(stack) = 1 /\ InSolveAll(Top) /\ Len(Top.subgoals_proved) = 2

\* C9: in solve_subgoal the Prover comes first, the Reasoner's general proof only
\* after attemp_proverllm_proof returned None, recursive decomposition (at
\* depth + 1) only after general_llm_proof returned None as well, and nothing is
\* tried after the first strategy that returned a proof
C9_StrategyOrder ==
    \A n \in 1..Len(stack) :
        LET f == stack[n]
            o == f.outcome
        IN /\ InSolveSubgoal(f) =>
                /\ f.pc = "pv_attempt" => o = NoOutcome
                /\ f.pc \in {"ss_general", "gp_correct"} =>
                      o = [NoOutcome EXCEPT !.prover = "none"]
                /\ f.pc \in {"ss_decompose", "ss_wait"} =>
                      o = [NoOutcome EXCEPT !.prover = "none", !.reasoner = "none"]
                /\ f.pc = "ss_return" =>
                      \/ o = [NoOutcome EXCEPT !.prover = "proved"] /\ f.proof # None
                      \/ o = [NoOutcome EXCEPT !.prover = "none", !.reasoner = "proved"]
                            /\ f.proof # None
                      \/ o = [prover |-> "none", reasoner |-> "none",
                              decomposition |-> "proved"] /\ f.proof # None
                      \/ o.prover = "none" /\ o.reasoner = "none"
                            /\ o.decomposition \in {"none", "untried"}
                            /\ f.proof = None
           /\ n < Len(stack) =>
                /\ InSolveSubgoal(f) /\ f.pc = "ss_wait"
                /\ stack[n + 1].depth = f.depth + 1
                /\ stack[n + 1].problem = f.verified_subgoals[f.i]

\* a subgoal was solved by recursive decomposition after the Prover and the
\* Reasoner failed on it
C9_Witness ==
    /\ Len(stack) = 1 /\ Top.pc = "ss_return"
    /\ Top.outcome.decomposition = "proved" /\ Top.proof # None

\* C10 (as claimed): solve_subgoal is never started for a subgoal whose statement
\* is a key of the map validate_subgoals returned
C10_ProvedSubgoalsSkipped ==
    \A f \in Frames :
        InSolveSubgoal(f) => ~DictHas(f.proved_subgoals, f.subgoals[f.i])

\* part occurs in text as a run of consecutive tokens
Contains(text, part) ==
    \E a \in 1..(Len(text) - Len(part) + 1) : SubSeq(text, a, a + Len(part) - 1) = part

\* C11 (as claimed): the text solve_all_subgoals submits for the final check holds
\* the header, the proof of every proved subgoal (those validate_subgoals recorded
\* in proved_subgoals as well as those solved in this call) and the assembled sketch
C11_FinalTextHasAllProofs ==
    [][\A n \in 1..Len(stack) :
          (stack[n].pc = "sa_final" /\ n <= Len(stack') /\ stack'[n].pc = "sd_return")
          => LET f == stack[n]
                 text == lastExec'.code
             IN /\ SubSeq(text, 1, Len(Header)) = Header
                /\ Contains(text, f.sketch_assembled)
                /\ \A j \in 1..Len(f.subgoals_proved) :
                      Contains(text, f.subgoals_proved[j][2])
                /\ \A j \in 1..Len(f.proved_subgoals) :
                      Contains(text, f.proved_subgoals[j][2])]_vars

\* C12 (as claimed): a subgoal the Prover could not prove but the Reasoner judged
\* mathematically correct is in the map validate_subgoals returns, keyed by its
\* statement with that statement as its proof
C12_JudgedSubgoalInProvedMap ==
    \A f \in Frames :
        InSolveAll(f) =>
            \A j \in 1..Len(f.verified_subgoals) :
                f.verified_subgoals[j] = f.subgoals[j]
                    => \E m \in 1..Len(f.proved_subgoals) :
                          f.proved_subgoals[m] = <<f.subgoals[j], f.subgoals[j]>>

\* C12 (amended): a subgoal the Prover could not prove in validate_subgoals but the
\* Reasoner judged correct is accepted into the validated list under its own
\* statement and is not in the map of proved subgoals; solve_all_subgoals calls
\* solve_subgoal on it; a proof is returned only after the composed text verified
C12_JudgedSubgoalValidated ==
    \A f \in Frames :
        /\ InSolveAll(f) =>
              \A j \in 1..Len(f.verified_subgoals) :
                  f.verified_subgoals[j] = f.subgoals[j]
                      => /\ ~DictHas(f.proved_subgoals, f.subgoals[j])
                         /\ (f.pc = "sa_final" \/ f.i >= j)
                                => \E a \in 1..Len(f.attempted) :
                                      f.attempted[a] = f.subgoals[j]
        /\ f.pc = "sd_return" /\ f.retval # None
              => lastExec.code = f.retval /\ Truthy(lastExec.verified)

\* every subgoal has been handled in a solve_all_subgoals call that received a
\* subgoal accepted by judgment
C12_Witness ==
    /\ Len(stack) = 1 /\ Top.pc = "sa_final"
    /\ \E j \in 1..Len(Top.verified_subgoals) :
          Top.verified_subgoals[j] = Top.subgoals[j]

\* the outermost invocation is about to compose the final proof of its first
\* sketch, which verified on its first check and had no subgoal extracted
FirstSketchPlain ==
    /\ Len(stack) = 1 /\ Top.pc = "sa_final"
    /\ Top.attempt = 0 /\ Top.verified_at_once /\ Top.extracted_all = <<>>

\* C13 (as claimed): in that case generate_proof returns the sketch itself (as
\* generated, compressed or assembled) and the Prover has not been called
C13_ReturnsSketchItself ==
    [][FirstSketchPlain =>
          /\ stack'[1].retval \in {GeneratedSketch, CompressedSketch, Top.sketch_assembled}
          /\ ~Top.prover_called]_vars

\* C13 (amended): in that case the text header, newline, empty theorem block,
\* newline, assembled sketch is submitted to the Verifier; subgoal_decomposition
\* returns that text if it verified and None otherwise, generate_proof returns the
\* same, and the Prover has not been called in the run
C13_ReturnsComposedSketch ==
    /\ [][FirstSketchPlain =>
             LET text == Header \o NL \o NL \o Top.sketch_assembled
             IN /\ lastExec'.code = text
                /\ stack'[1].pc = "sd_return"
                /\ stack'[1].retval = IF Truthy(lastExec'.verified) THEN text ELSE None
                /\ ~Top.prover_called]_vars
    /\ [][(Len(stack) = 1 /\ Top.pc = "sd_return")
             => status' = "returned" /\ result' = Top.retval]_vars

\* the outermost invocation is returning the composed proof of such a first sketch
C13_Witness ==
    /\ Len(stack) = 1 /\ Top.pc = "sd_return" /\ Top.ret_line = 81
    /\ Top.attempt = 0 /\ Top.verified_at_once /\ Top.extracted_all = <<>>
    /\ ~Top.prover_called
    /\ Top.retval = Header \o NL \o NL \o AssembledSketch

\* C14: when the first check of the sketch fails with a diagnostic naming a missing
\* identifier, no later diagnostic names one, and the first or the second
\* correction verifies, complete_and_correct_syntax_error returns the corrected
\* sketch (the one the Verifier accepted last) after exactly one re-retrieval
C14_OneAugmentation ==
    \A f \in Frames :
        ( /\ f.pc = "rv_compress"
          /\ Len(f.cs_diags) \in {1, 2}
          /\ f.cs_diags[1] = UnknownIdentifier
          /\ \A j \in 2..Len(f.cs_diags) : ExtractMissingIdentifiers(f.cs_diags[j]) = <<>> )
        => /\ f.sketch_syntactic = CorrectedSketch
           /\ lastExec.code = Header \o NL \o CorrectedSketch /\ Truthy(lastExec.verified)
           /\ f.cs_retrievals = 1

\* the second correction verified after a missing identifier and then another
\* kind of failure, and complete_and_correct_syntax_error has returned
C14_Witness ==
    /\ Len(stack) = 1 /\ Top.pc = "rv_compress"
    /\ Top.cs_diags = <<UnknownIdentifier, TypeMismatch>>
    /\ Top.cs_retrievals = 1

\* the step is the last correction of complete_and_correct_syntax_error in frame n,
\* no call of it raises, and the Verifier rejects the corrected sketch:
\* complete_and_correct_syntax_error returns None
SyntaxExhausted(n) ==
    /\ n = Len(stack) /\ stack[n].pc = "cs_loop"
    /\ stack[n].k + 1 = theorem_corrections
    /\ status' # "raised"
    /\ ~Truthy(lastExec'.verified)

\* C15: when complete_and_correct_syntax_error returns None,
\* refine_and_validate_sketch returns at once: the invocation is at the next
\* sketch attempt, or returns None with the attempts used up; nothing was
\* compressed, extracted, assembled, validated or refined after the failure
C15_SyntaxFailureEndsRefine ==
    [][\A n \in 1..Len(stack) :
          SyntaxExhausted(n) =>
             LET f == stack[n]
                 g == stack'[n]
             IN /\ Len(stack') = Len(stack)
                /\ \/ g.pc = "sd_attempt" /\ g.attempt = f.attempt + 1
                   \/ g.pc = "sd_return" /\ g.ret_line = 83 /\ g.retval = None
                         /\ f.attempt + 1 = sketch_attemps
                /\ g.nsketch = f.nsketch
                /\ g.pass_no = 0 /\ g.sketch = None /\ g.sketch_syntactic = None
                /\ g.compress_verified = "untried" /\ g.extracted_all = <<>>
                /\ g.sketch_assembled = None /\ g.verified_subgoals = <<>>]_vars

\* the last correction of the first sketch has just been rejected in the first
\* pass, with passes left, and the second sketch attempt is about to start
C15_Witness ==
    /\ Len(stack) = 1 /\ Top.pc = "sd_attempt" /\ Top.attempt = 1
    /\ lastExec.code = Header \o NL \o CorrectedSketch /\ ~Truthy(lastExec.verified)
    /\ sketch_correction_attemps > 1

\* the positions of a pass after extract_subgoals returned a list
AfterExtraction(f) ==
    \/ f.pc \in {"as_assemble", "as_correct", "vs_judge", "rv_refine"}
    \/ f.pc = "pv_attempt" /\ f.caller = "validate_subgoals"

\* entry is the extracted statement or its correction by the Reasoner
EntryFor(entry, subgoal) == entry \in {subgoal, CorrectedSubgoal(subgoal)}

\* C16: extract_subgoals keeps, in extraction order, one entry per extracted
\* subgoal (the statement or a correction of it), each appended right after the
\* Verifier accepted header + entry; the list it returns has an entry for every
\* extracted subgoal; when the last correction of a subgoal is rejected the
\* pass ends with no list at all (the next sketch attempt, or None)
C16_ExtractAllOrNothing ==
    /\ [](\A f \in Frames :
            /\ f.pc \in {"es_check", "es_correct"} =>
                  /\ Len(f.correct_subgoals) = f.i - 1
                  /\ f.extracted = f.extracted_all
                  /\ \A j \in 1..(f.i - 1) :
                        EntryFor(f.correct_subgoals[j], f.extracted[j])
            /\ AfterExtraction(f) =>
                  /\ Len(f.subgoals) = Len(f.extracted_all)
                  /\ \A j \in 1..Len(f.subgoals) :
                        EntryFor(f.subgoals[j], f.extracted_all[j]))
    /\ [][\A n \in 1..Len(stack) :
            (n = Len(stack) /\ stack[n].pc \in {"es_check", "es_correct"}) =>
               LET f == stack[n]
                   g == stack'[n]
                   kept == IF g.pc = "as_assemble" THEN g.subgoals
                           ELSE g.correct_subgoals
               IN /\ Truthy(lastExec'.verified) =>
                        /\ kept = Append(f.correct_subgoals,
                                         SubSeq(lastExec'.code, 3, Len(lastExec'.code)))
                        /\ SubSeq(lastExec'.code, 1, 2) = Header \o NL
                        /\ g.pc \in {"es_check", "as_assemble", "sa_final",
                                     "pv_attempt", "vs_judge"}
                  /\ (~Truthy(lastExec'.verified) /\ g.pc \in {"es_check", "es_correct"})
                        => g.correct_subgoals = f.correct_subgoals /\ g.i = f.i
                  /\ (~Truthy(lastExec'.verified) /\ f.pc = "es_correct"
                            /\ f.k + 1 = subgoal_corrections)
                        => /\ g.pc \in {"sd_attempt", "sd_return"}
                           /\ g.subgoals = <<>> /\ g.correct_subgoals = <<>>]_vars

\* extract_subgoals has returned a list of two entries, the first of them a
\* correction of the extracted statement
C16_Witness ==
    /\ Len(stack) = 1 /\ Top.pc = "as_assemble"
    /\ Len(Top.extracted_all) = 2
    /\ Top.subgoals = <<CorrectedSubgoal(Top.extracted_all[1]), Top.extracted_all[2]>>

\* C17: a rejection by validate_subgoals leads to refine_sketch_based_error with
\* the justification; if passes remain the next pass of the same sketch attempt
\* runs on the refined sketch (no sketch is generated), otherwise
\* refine_and_validate_sketch returns (None, None, None): the next sketch attempt
\* starts or subgoal_decomposition returns None
C17_RejectionRefinesSketch ==
    /\ [](\A f \in Frames :
            /\ f.pc = "rv_refine" =>
                  f.error_justification # None /\ f.caller = "validate_subgoals"
            /\ (InRefinePass(f) /\ f.pass_no >= 1) => f.sketch = RefinedSketch)
    /\ [][\A n \in 1..Len(stack) :
            (n = Len(stack) /\ stack[n].pc = "rv_refine") =>
               LET f == stack[n]
                   g == stack'[n]
               IN /\ g.nsketch = f.nsketch
                  /\ IF f.pass_no + 1 < sketch_correction_attemps
                     THEN /\ g.pc = "rv_pass" /\ g.pass_no = f.pass_no + 1
                          /\ g.attempt = f.attempt
                          /\ g.sketch = RefinedSketch
                     ELSE \/ g.pc = "sd_attempt" /\ g.attempt = f.attempt + 1
                             /\ g.sketch = None
                          \/ g.pc = "sd_return" /\ g.ret_line = 83
                             /\ g.retval = None]_vars

\* the second pass of a sketch attempt is about to check the refined sketch
C17_Witness ==
    /\ Len(stack) = 1 /\ Top.pc = "rv_pass" /\ Top.pass_no = 1
    /\ Top.sketch = RefinedSketch /\ Top.nsketch = 1

\* the frame is inside validate_subgoals, working on subgoals[f.i]
InValidate(f) ==
    f.caller = "validate_subgoals" /\ f.pc \in {"pv_attempt", "vs_judge", "rv_refine"}

\* C18: validate_subgoals goes through the subgoals in order, every earlier one
\* accepted (by a Prover proof recorded in the map, or by judgment); the judgment
\* on a subgoal is requested only after attemp_proverllm_proof returned None for
\* it; a subgoal is rejected only by a judgment 'no', and then the pass goes to
\* refine_sketch_based_error without looking at a later subgoal
C18_ValidateInOrder ==
    /\ [](\A f \in Frames :
            InValidate(f) =>
               /\ f.i \in 1..Len(f.subgoals)
               /\ Len(f.verified_subgoals) = f.i - 1
               /\ \A j \in 1..(f.i - 1) :
                     \/ /\ f.verified_subgoals[j] = f.subgoals[j]
                        /\ ~DictHas(f.proved_subgoals, f.subgoals[j])
                     \/ \E m \in 1..Len(f.proved_subgoals) :
                           f.proved_subgoals[m] = <<f.subgoals[j], f.verified_subgoals[j]>>
               /\ \A j \in f.i..Len(f.subgoals) :
                     ~DictHas(f.proved_subgoals, f.subgoals[j]))
    /\ [][\A n \in 1..Len(stack) :
            (n = Len(stack) /\ n <= Len(stack')) =>
               LET f == stack[n]
                   g == stack'[n]
               IN /\ (g.pc = "vs_judge" /\ (f.pc # "vs_judge" \/ g.i # f.i)) =>
                        \/ prover = "None"
                        \/ /\ f.pc = "pv_attempt" /\ f.caller = "validate_subgoals"
                           /\ g.i = f.i /\ f.k + 1 = prover_attemps
                           /\ (lastExec' = lastExec \/ ~Truthy(lastExec'.verified))
                  /\ f.pc = "vs_judge" =>
                        \/ g.verified_subgoals = Append(f.verified_subgoals, f.subgoals[f.i])
                        \/ /\ g.pc = "rv_refine" /\ g.i = f.i
                           /\ g.verified_subgoals = f.verified_subgoals
                           /\ g.error_justification # None
                  /\ (g.pc = "rv_refine" /\ f.pc # "rv_refine") => f.pc = "vs_judge"
                  /\ f.pc = "rv_refine" => g.pc \in {"rv_pass", "sd_attempt", "sd_return"}]_vars

\* the first of two subgoals was rejected after the Prover failed on it
C18_Witness ==
    /\ Len(stack) = 1 /\ Top.pc = "rv_refine" /\ prover = "ProverAgent"
    /\ Top.i = 1 /\ Len(Top.subgoals) = 2 /\ Top.prover_called

\* C19: the compressed sketch replaces the syntactically valid one only if header +
\* compressed sketch passed the Verifier; a rejected compression leaves the sketch
\* as it was and the pass goes on to subgoal extraction; extraction and assembly
\* are given the sketch so chosen
C19_CompressionKeptOnlyIfVerified ==
    /\ [](\A f \in Frames :
            /\ f.compress_verified = "yes" => f.sketch_syntactic = CompressedSketch
            /\ f.compress_verified = "no" =>
                  f.sketch_syntactic \in {f.sketch, CorrectedSketch}
            /\ f.extract_from # None => f.extract_from = f.sketch_syntactic
            /\ f.assembled_from # None => f.assembled_from = f.sketch_syntactic)
    /\ [][\A n \in 1..Len(stack) :
            (n = Len(stack) /\ stack[n].pc = "rv_compress") =>
               LET f == stack[n]
                   g == stack'[n]
               IN /\ lastExec'.code = Header \o NL \o CompressedSketch
                  /\ g.pc = "es_extract"
                  /\ g.pass_no = f.pass_no /\ g.attempt = f.attempt
                  /\ g.sketch_syntactic = IF Truthy(lastExec'.verified) THEN CompressedSketch
                                          ELSE f.sketch_syntactic]_vars

\* the compressed sketch was rejected and the sketch as generated has been used
\* for extraction and assembly
C19_Witness ==
    /\ Len(stack) = 1 /\ Top.compress_verified = "no"
    /\ Top.sketch_syntactic = GeneratedSketch
    /\ Top.extract_from = GeneratedSketch /\ Top.assembled_from = GeneratedSketch

\* C20: an assembled sketch is held (and returned by refine_and_validate_sketch)
\* only if the Verifier accepted header + subgoal block + exactly that sketch, at
\* the moment it was taken; the repair loop makes at most head_theorems_sketch
\* corrections; when the last of them is rejected the pass ends with no sketch
\* (the next sketch attempt, or None)
C20_AssemblyVerified ==
    /\ [](\A f \in Frames :
            /\ f.sketch_assembled # None =>
                  f.assembly_accepted =
                      FullProofWithTheorems(Join(NL \o NL, f.subgoals), f.sketch_assembled)
            /\ f.pc = "as_correct" => f.k + 1 <= head_theorems_sketch)
    /\ [][\A n \in 1..Len(stack) :
            (n = Len(stack) /\ stack[n].pc \in {"as_assemble", "as_correct"}) =>
               LET f == stack[n]
                   g == stack'[n]
               IN /\ g.sketch_assembled # None =>
                        /\ lastExec'.code = FullProofWithTheorems(
                                                 Join(NL \o NL, f.subgoals),
                                                 g.sketch_assembled)
                        /\ Truthy(lastExec'.verified)
                  /\ ~Truthy(lastExec'.verified) => g.sketch_assembled = None
                  /\ (~Truthy(lastExec'.verified) /\ f.pc = "as_correct"
                            /\ f.k + 1 = head_theorems_sketch)
                        => \/ g.pc = "sd_attempt" /\ g.attempt = f.attempt + 1
                           \/ g.pc = "sd_return" /\ g.ret_line = 83
                              /\ g.retval = None]_vars

\* refine_and_validate_sketch has returned a repaired assembly of two subgoals
C20_Witness ==
    /\ Len(stack) = 1 /\ InSolveAll(Top)
    /\ Top.sketch_assembled = CorrectedAssembly /\ Len(Top.subgoals) = 2

\* C21: when header + sketch passes the first check of
\* complete_and_correct_syntax_error, the call returns the sketch it was given,
\* having made exactly one Verifier call (on header + "\n" + sketch) and no
\* Reasoner or Retriever call
C21_FirstCheckPassReturnsUnchanged ==
    [][\A n \in 1..Len(stack) :
          (n = Len(stack) /\ n <= Len(stack') /\ stack[n].pc = "rv_pass"
              /\ Truthy(lastExec'.verified))
          => /\ stack'[n].pc = "rv_compress"
             /\ stack'[n].sketch_syntactic = stack[n].sketch
             /\ lastExec'.code = Header \o NL \o stack[n].sketch
             /\ stack'[n].cs_execs = 1
             /\ stack'[n].cs_reasoner = 0
             /\ stack'[n].cs_retrievals = 0]_vars

\* a refined sketch has passed the first check of a later pass
C21_Witness ==
    /\ Len(stack) = 1 /\ Top.pc = "rv_compress" /\ Top.cs_execs = 1
    /\ Top.sketch = RefinedSketch /\ Top.sketch_syntactic = RefinedSketch
    /\ lastExec.code = Header \o NL \o RefinedSketch /\ Truthy(lastExec.verified)

\* the diagnostic names an unknown identifier or an unknown constant
NamesMissingIdentifier(error_message) ==
    error_message \in {UnknownIdentifier, UnknownConstant}

\* the frame is inside complete_and_correct_syntax_error or has just left it
\* with a sketch
InOrAfterSyntax(f) == f.pc \in {"cs_loop", "rv_compress"}

\* C22: an iteration of the syntax-correction loop works on the latest
\* diagnostic; it makes a retrieval (Reasoner queries, Retriever search, with the
\* diagnostic) only if that diagnostic names an unknown identifier or constant,
\* and otherwise gives the correction the existing theorem list unchanged
C22_RetrieveOnlyOnMissingIdentifier ==
    [][\A n \in 1..Len(stack) :
          (n = Len(stack) /\ n <= Len(stack') /\ stack[n].pc = "cs_loop"
              /\ InOrAfterSyntax(stack'[n]))
          => LET f == stack[n]
                 g == stack'[n]
             IN /\ f.error_message = f.cs_diags[Len(f.cs_diags)]
                /\ g.cs_retrievals # f.cs_retrievals
                      => NamesMissingIdentifier(f.error_message)
                /\ ~NamesMissingIdentifier(f.error_message)
                      => /\ g.cs_retrievals = f.cs_retrievals
                         /\ g.cs_theorems = f.relevant_theorems]_vars

\* a second correction has been made on a diagnostic that names no identifier,
\* after a first one made on a diagnostic that names an unknown constant
C22_Witness ==
    /\ Len(stack) = 1 /\ Top.pc = "rv_compress"
    /\ Top.cs_diags = <<UnknownConstant, TypeMismatch>>
    /\ Top.cs_retrievals = 1 /\ Top.cs_theorems = Top.relevant_theorems

\* C23 (as claimed): an iteration whose diagnostic names no missing identifier
\* still augments the theorems: a retrieval is made before the rewrite
C23_AugmentsWithoutMissingIdentifier ==
    [][\A n \in 1..Len(stack) :
          (n = Len(stack) /\ n <= Len(stack') /\ stack[n].pc = "cs_loop"
              /\ InOrAfterSyntax(stack'[n])
              /\ ~NamesMissingIdentifier(stack[n].error_message))
          => stack'[n].cs_retrievals = stack[n].cs_retrievals + 1]_vars

\* C23 (amended): an iteration whose diagnostic names no missing identifier
\* still goes through augment_theorems, which returns the existing theorems,
\* and then makes exactly one Reasoner call, the rewrite of the sketch with
\* those theorems, whose answer is the text submitted to the Verifier next
C23_RewritesWithoutMissingIdentifier ==
    [][\A n \in 1..Len(stack) :
          (n = Len(stack) /\ n <= Len(stack') /\ stack[n].pc = "cs_loop"
              /\ InOrAfterSyntax(stack'[n])
              /\ ~NamesMissingIdentifier(stack[n].error_message))
          => LET f == stack[n]
                 g == stack'[n]
             IN /\ g.cs_theorems =
                      AugmentTheorems(f.error_message, f.relevant_theorems,
                                      RetrievedTheorems)
                /\ g.cs_reasoner = f.cs_reasoner + 1
                /\ g.cs_execs = f.cs_execs + 1
                /\ lastExec'.code = Header \o NL \o CorrectedSketch]_vars

\* the sketch failed its first check with a type mismatch and the rewrite made
\* in the first iteration verified
C23_Witness ==
    /\ Len(stack) = 1 /\ Top.pc = "rv_compress"
    /\ Top.cs_diags = <<TypeMismatch>> /\ Top.cs_reasoner = 1
    /\ Top.cs_retrievals = 0 /\ Top.sketch_syntactic = CorrectedSketch

\* no theorem name occurs twice in the list
NoDuplicates(theorems) ==
    \A a, b \in 1..Len(theorems) : theorems[a] = theorems[b] => a = b

\* C24 (as claimed): the theorem list augment_theorems produces, as given to a
\* sketch correction or a proof correction, never holds the same name twice
C24_AugmentedNamesUnique ==
    \A f \in Frames :
        NoDuplicates(f.cs_theorems) /\ NoDuplicates(f.augmented_theorems)

\* the position of x in the list xs
IndexOf(xs, x) == CHOOSE j \in 1..Len(xs) : xs[j] = x

\* C27: solve_all_subgoals takes the subgoals one at a time in list order: the
\* subgoals attempted so far are in increasing position, the latest is the one
\* being worked on, every invocation above the frame is the recursive
\* decomposition of that subgoal, and the loop moves on (to a later subgoal, or
\* to the final composition) only when solve_subgoal has returned
C27_SubgoalsOneAtATime ==
    /\ [](\A n \in 1..Len(stack) :
            InSolveAll(stack[n]) =>
               LET f == stack[n]
               IN /\ \A a \in 1..Len(f.attempted) :
                        \E j \in 1..Len(f.verified_subgoals) :
                            f.verified_subgoals[j] = f.attempted[a]
                  /\ \A a, b \in 1..Len(f.attempted) :
                        a < b => IndexOf(f.verified_subgoals, f.attempted[a])
                                   < IndexOf(f.verified_subgoals, f.attempted[b])
                  /\ f.i >= 1 => /\ f.attempted # <<>>
                                 /\ f.attempted[Len(f.attempted)]
                                        = f.verified_subgoals[f.i]
                  /\ n < Len(stack) => /\ f.pc = "ss_wait"
                                       /\ f.i >= 1
                                       /\ stack[n + 1].problem
                                              = f.verified_subgoals[f.i])
    /\ [][\A n \in 1..Len(stack) :
             (n <= Len(stack') /\ InSolveAll(stack[n]) /\ InSolveAll(stack'[n])
                 /\ stack'[n].i # stack[n].i)
             => /\ n = Len(stack)
                /\ stack[n].pc = "ss_return"
                /\ stack'[n].i > stack[n].i \/ stack'[n].pc = "sa_final"]_vars

\* the first of two subgoals was solved by its recursive decomposition (its
\* proof is a whole composed text) and the second is now being attempted
C27_Witness ==
    /\ Len(stack) = 1 /\ InSolveAll(Top) /\ Top.i = 2 /\ Top.pc = "pv_attempt"
    /\ Len(Top.attempted) = 2
    /\ DictHas(Top.subgoals_proved, Top.verified_subgoals[1])
    /\ Top.subgoals_proved[1][2][1] = Header[1]

\* the proved-subgoal accumulation of a frame: the list and map validation
\* returned and the map of the solve_all_subgoals call
ProvedAccumulation(f) == <<f.verified_subgoals, f.proved_subgoals, f.subgoals_proved>>

\* C28: the accumulation of an invocation is private to it: while a recursive
\* invocation runs, and when it returns, the accumulation of every invocation
\* below it is unchanged; a recursive invocation starts from its subgoal and
\* depth alone, with empty maps; and what comes back to the caller is the
\* returned proof only, as the result of solve_subgoal
C28_ProvedMapPrivate ==
    [][/\ \A n \in 1..Len(stack) :
             (n < Len(stack) /\ n <= Len(stack'))
             => ProvedAccumulation(stack'[n]) = ProvedAccumulation(stack[n])
       /\ Len(stack') = Len(stack) + 1
             => LET caller == stack[Len(stack)]
                IN /\ stack'[Len(stack')] =
                         Frame(caller.verified_subgoals[caller.i], caller.depth + 1)
                   /\ ProvedAccumulation(stack'[Len(stack)])
                         = ProvedAccumulation(caller)
       /\ (Len(stack) > 1 /\ Len(stack') = Len(stack) - 1)
             => /\ stack'[Len(stack')].pc = "ss_return"
                /\ stack'[Len(stack')].proof = stack[Len(stack)].retval]_vars

\* a recursive invocation for the second subgoal, with a subgoal and a proof
\* of its own in its accumulation, has reached its final check while its
\* caller holds the proof that the recursive invocation for the first subgoal
\* returned (a composed text, which begins with the header)
C28_Witness ==
    /\ Len(stack) = 2 /\ Top.pc = "sa_final"
    /\ stack[1].i = 2
    /\ Len(stack[1].subgoals_proved) = 1
    /\ stack[1].subgoals_proved[1][2][1] = Header[1]
    /\ Top.verified_subgoals # <<>> /\ Top.subgoals_proved # <<>>
    /\ ProvedAccumulation(Top) # ProvedAccumulation(stack[1])

\* C29: what refine_and_validate_sketch returns is (None, None, None) or a
\* triple with all three components non-null, never a mixture; the non-null
\* triple is returned exactly to a frame that goes on to solve_all_subgoals
\* with that assembled sketch
C29_AllOrNothingTriple ==
    \A f \in Frames :
        /\ f.rv_result.returned =>
              \/ /\ f.rv_result.sketch_assembled = None
                 /\ f.rv_result.subgoals_null /\ f.rv_result.proved_null
              \/ /\ f.rv_result.sketch_assembled # None
                 /\ ~f.rv_result.subgoals_null /\ ~f.rv_result.proved_null
        /\ InSolveAll(f) <=> (f.rv_result.returned
                                /\ f.rv_result.sketch_assembled # None)
        /\ InSolveAll(f) => f.rv_result.sketch_assembled = f.sketch_assembled

\* a pass was abandoned after its sketch had been assembled (the Reasoner
\* rejected a subgoal and no pass is left): the call returned (None, None, None)
C29_Witness ==
    /\ Len(stack) = 1 /\ Top.pc = "sd_attempt" /\ Top.attempt = 1
    /\ Top.rv_result = AllNull
    /\ lastExec.code = Header \o NL \o <<"lemma1">> \o NL \o AssembledSketch

C30_ExecuteReturnsPair ==
    check.pc \in {"not constructed", "unpack", "done"} =>
        /\ check.returned.type = "tuple"
        /\ Len(check.returned.items) = 2
        /\ check.returned.items[1] = (check.process = "exit 0")
        /\ check.process = "exit 1"
               => check.returned.items[2] = GetAttr(check.result, "output", <<>>)

\* C31 (as written) the list batch_retrieve returns is ordered by score, largest
\* first, and holds no theorem name twice
C31_RankedAndDeduplicated ==
    retrieval.pc = "returned" =>
        /\ \A j \in 1..(Len(retrieval.returned) - 1) :
               retrieval.returned[j].score >= retrieval.returned[j + 1].score
        /\ \A j, k \in 1..Len(retrieval.returned) :
               retrieval.returned[j].name = retrieval.returned[k].name => j = k

\* C32 (as written) with cleanup enabled, when execute has returned the
\* temporary file of the call does not exist and its path is not in temp_files
C32_TempFileGoneAfterExecute ==
    runner.pc = "returned" /\ runner.cleanup
        => /\ runner.temp_path \notin runner.disk
           /\ ~InList(runner.temp_files, runner.temp_path)

\* the positions at which the next step is a Reasoner repair call of a local
\* loop: correct_sketch_error (line 194), correct_theorem_error (254),
\* assembly_correction (293), augment_theorems + correct_proof_error (452-453)
RepairSites == {"cs_loop", "es_correct", "as_correct", "gp_correct"}

\* C33 the error_message a repair call of a local loop is about to be given is
\* the diagnostic of the most recent Verifier call, which failed; and outside
\* the repair loops no invocation holds a diagnostic
C33_RepairGetsLatestDiagnostic ==
    \A n \in 1..Len(stack) :
        /\ stack[n].pc \in RepairSites
              => /\ n = Len(stack)
                 /\ stack[n].error_message = lastDiagnostic
                 /\ lastDiagnostic \in Diagnostics
                 /\ ~Truthy(lastExec.verified)
        /\ stack[n].pc \notin RepairSites => stack[n].error_message = NoMessage

\* the second pass of the general-proof loop after a pass whose corrected proof
\* was empty (`continue`, no Verifier call): the diagnostic is still that of
\* the loop's latest check
C33_Witness ==
    /\ Len(stack) = 1 /\ Top.pc = "gp_correct" /\ Top.k = 1
    /\ Top.proof = Empty
    /\ Top.error_message = UnknownConstant

\* C36 without a Prover no invocation is ever inside the Prover loop, none has
\* called the Prover or holds a Prover proof; and the step that brings
\* validate_subgoals (solve_subgoal) to a subgoal leaves it at the correctness
\* judgment (at the Reasoner's general-proof attempt)
C36_NoProverGoesStraightOn ==
    /\ [](prover = "None"
            => \A f \in Frames :
                   /\ f.pc # "pv_attempt"
                   /\ ~f.prover_called
                   /\ f.proved_subgoals = <<>>
                   /\ f.outcome.prover \in {"untried", "none"})
    /\ [][prover = "None" =>
            \A m \in 1..Len(stack') :
                m <= Len(stack) =>
                    LET f == stack[m]
                        g == stack'[m]
                    IN /\ (/\ g.caller = "validate_subgoals" /\ g.i >= 1
                           /\ g.pc # "sd_return"
                           /\ (f.caller # "validate_subgoals" \/ f.i # g.i))
                          => g.pc = "vs_judge"
                       /\ (/\ InSolveSubgoal(g)
                           /\ g.pc # "sd_return"
                           /\ (~InSolveSubgoal(f) \/ f.i # g.i))
                          => g.pc = "ss_general" /\ g.outcome.prover = "none"]_vars

\* without a Prover, solve_all_subgoals has come to its second subgoal and is at
\* the general-proof attempt
C36_Witness ==
    /\ prover = "None" /\ Len(stack) = 1
    /\ InSolveSubgoal(Top) /\ Top.i = 2 /\ Top.pc = "ss_general"
    /\ Len(Top.subgoals) = 2

\* C37 in every attemp_proverllm_proof invocation each prove_subgoal call is
\* either an empty output (no Verifier call) or is followed by one Verifier
\* call, within prover_attemps calls in all, so the Verifier calls never
\* exceed the Prover calls; and the invocation returns a proof only in a step
\* whose Verifier call was on exactly that text and accepted it, None only
\* when every attempt is used up
C37_ProverProofVerified ==
    /\ [](\A f \in Frames :
            /\ f.pv_execs + f.pv_empty = f.pv_prover
            /\ f.pv_execs <= f.pv_prover
            /\ f.pv_prover <= prover_attemps
            /\ f.pc = "pv_attempt" => f.pv_prover = f.k /\ f.k < prover_attemps
            /\ f.pv_last.execs + f.pv_last.empty = f.pv_last.prover
            /\ f.pv_last.execs <= f.pv_last.prover
            /\ f.pv_last.prover <= prover_attemps
            /\ f.pv_last.proof # None => f.pv_last.execs >= 1)
    /\ [][\A m \in {Len(stack)} :
            (m >= 1 /\ m <= Len(stack') /\ stack[m].pc = "pv_attempt") =>
                LET f == stack[m]
                    g == stack'[m]
                    returned == g.pc # "pv_attempt" \/ g.i # f.i \/ g.caller # f.caller
                IN /\ (returned /\ g.pv_last.proof # None)
                      => /\ lastExec'.code = g.pv_last.proof /\ Truthy(lastExec'.verified)
                         /\ g.pv_last.proof # Empty
                         /\ g.pv_last.execs = f.pv_execs + 1
                   /\ (returned /\ g.pv_last.proof = None)
                      => g.pv_last.prover = prover_attemps
                   /\ ~returned
                      => /\ g.pv_prover = f.pv_prover + 1
                         /\ g.pv_execs \in {f.pv_execs, f.pv_execs + 1}
                         /\ g.pv_execs = f.pv_execs =>
                                lastExec' = lastExec /\ g.pv_empty = f.pv_empty + 1
                         /\ g.pv_execs # f.pv_execs => ~Truthy(lastExec'.verified)]_vars

\* an invocation whose first Prover output was empty and whose second was
\* accepted: two Prover calls, one Verifier call
C37_Witness ==
    /\ Len(stack) = 1 /\ Top.pc = "ss_return"
    /\ Top.pv_last.prover = 2 /\ Top.pv_last.execs = 1 /\ Top.pv_last.empty = 1
    /\ Top.pv_last.proof = Top.proof
    /\ lastExec.code = Top.proof /\ Truthy(lastExec.verified)

\* C38 when solve_subgoal returned None for a subgoal, solve_all_subgoals goes
\* on (to the next subgoal or to the final composition) with its map unchanged;
\* at the final composition every subgoal validation left unproved has been
\* attempted; and the invocation ends only by the step that checks the
\* composed proof, which returns that text if the check passed and None if not
C38_UnsolvedSubgoalDoesNotAbort ==
    /\ [](\A f \in Frames :
            f.pc = "sa_final" =>
                \A j \in 1..Len(f.verified_subgoals) :
                    ~DictHas(f.proved_subgoals, f.verified_subgoals[j])
                        => InList(f.attempted, f.verified_subgoals[j]))
    /\ [][\A n \in 1..Len(stack) :
            n <= Len(stack') =>
                LET f == stack[n]
                    g == stack'[n]
                IN /\ (InSolveAll(f) /\ f.pc = "ss_return" /\ f.proof = None)
                      => /\ InSolveAll(g)
                         /\ g.pc \in {"pv_attempt", "ss_general", "sa_final"}
                         /\ g.pc # "sa_final" => g.i > f.i
                         /\ g.subgoals_proved = f.subgoals_proved
                   /\ (InSolveAll(f) /\ ~InSolveAll(g))
                      => /\ f.pc = "sa_final"
                         /\ g.pc = "sd_return" /\ g.ret_line = 81
                         /\ lastExec'.code
                                = ConcatenateProofs(f.subgoals_proved, f.sketch_assembled)
                         /\ g.retval = IF Truthy(lastExec'.verified) THEN lastExec'.code ELSE None
                   /\ f.pc = "sa_final" => ~InSolveAll(g)]_vars

\* the final composition is reached with the first of two subgoals unsolved
\* and the second solved
C38_Witness ==
    /\ Len(stack) = 1 /\ Top.pc = "sa_final"
    /\ Len(Top.verified_subgoals) = 2 /\ Len(Top.attempted) = 2
    /\ ~DictHas(Top.subgoals_proved, Top.verified_subgoals[1])
    /\ DictHas(Top.subgoals_proved, Top.verified_subgoals[2])

\* C34 a generate call makes at most max_retries API calls; every API call but
\* the first was preceded by a wait of retry_delay * 2^k after the failed
\* attempt k, which failed with a rate-limit, connection or unexpected error;
\* when attempt max_retries - 1 fails the error is raised with no wait after
\* it; a completion is the last API call and the response is returned
C34_BoundedCallsWithBackoff ==
    LET calls == client.calls
        sleeps == client.sleeps
    IN /\ Len(calls) <= client.max_retries
       /\ Len(sleeps) <= Len(calls)
       /\ Len(calls) > 0 => Len(sleeps) >= Len(calls) - 1
       /\ (client.pc = "for" /\ client.attempt < client.max_retries)
             => Len(sleeps) = Len(calls)
       /\ \A k \in 0..(Len(sleeps) - 1) :
             /\ sleeps[k + 1] = client.retry_delay * 2^k
             /\ calls[k + 1] \in {"RateLimitError", "APIConnectionError", "Exception"}
       /\ \A k \in 0..(Len(calls) - 1) :
             /\ (calls[k + 1] \in {"RateLimitError", "APIConnectionError", "Exception"}
                    /\ k = client.max_retries - 1)
                   => /\ client.pc = "raised" /\ client.outcome = calls[k + 1]
                      /\ Len(sleeps) = k
             /\ calls[k + 1] = "completion"
                   => /\ k + 1 = Len(calls) /\ Len(sleeps) = k
                      /\ client.pc = "returned" /\ client.outcome = "LLMResponse"
       /\ client.pc = "returned" => calls[Len(calls)] = "completion"

\* three attempts failed with the three retried kinds of error and retry_delay 3
C34_Witness ==
    /\ client.pc = "raised" /\ client.max_retries = 3 /\ client.retry_delay = 3
    /\ client.calls = <<"RateLimitError", "APIConnectionError", "Exception">>
    /\ client.sleeps = <<3, 6>>
    /\ client.outcome = "Exception"

\* C35 an API call that raised an APIError which is neither a rate-limit nor a
\* connection error is the last API call of the generate call: the error is
\* raised to the caller with no wait and no call after it, so an invocation
\* whose first call met it made exactly one call, whatever max_retries is
C35_APIErrorNeverRetried ==
    \A j \in 1..Len(client.calls) :
        client.calls[j] = "APIError"
            => /\ j = Len(client.calls)
               /\ Len(client.sleeps) = j - 1
               /\ client.pc = "raised" /\ client.outcome = "APIError"

\* the first API call of a generate call with three attempts allowed raised it
C35_Witness ==
    /\ client.pc = "raised" /\ client.max_retries = 3
    /\ client.calls = <<"APIError">> /\ client.sleeps = <<>>
    /\ client.outcome = "APIError"

\* C39 when an execute2 call has returned, error_history is what it was when
\* the call began followed by exactly one entry if the call failed and by
\* nothing if it succeeded; a call on a template without the placeholder fails
\* without a Lean run; and no step ever changes or removes an entry
C39_ErrorHistoryAppendOnly ==
    /\ [](agent_state.pc = "returned" =>
            LET success == GetAttr(agent_state.ret, "success", "missing")
                before == agent_state.history_at_call
                after == agent_state.error_history
            IN /\ success \in BOOLEAN
               /\ success => after = before
               /\ ~success => /\ Len(after) = Len(before) + 1
                              /\ SubSeq(after, 1, Len(before)) = before
               /\ ~HasPlaceholder(agent_state.task_template)
                     => /\ ~success
                        /\ agent_state.lean_runs = agent_state.runs_at_call
               /\ HasPlaceholder(agent_state.task_template)
                     => agent_state.lean_runs = agent_state.runs_at_call + 1)
    /\ [][/\ Len(agent_state'.error_history) >= Len(agent_state.error_history)
          /\ SubSeq(agent_state'.error_history, 1, Len(agent_state.error_history))
                = agent_state.error_history]_vars

\* a second call has failed in Lean after a first one that failed in Lean, on a
\* state that already held an entry
C39_Witness ==
    /\ agent_state.pc = "returned" /\ agent_state.calls = 2
    /\ Len(agent_state.history_at_call) = 2
    /\ Len(agent_state.error_history) = 3
    /\ agent_state.lean_runs = 2
    /\ ~GetAttr(agent_state.ret, "success", TRUE)

====
